---- MODULE Spec2Model ----
(***************************************************************************)
(* Model of the C.A.S.H. signal scoring engine (calculateCASHScoreV2 and   *)
(* the functions it calls).                                                *)
(*                                                                         *)
(* The engine never looks at the page other than through pattern matches   *)
(* (regular expressions and keyword containment) over text, title and      *)
(* html.  A page is therefore represented by the outcome of every match    *)
(* the code performs: one record per signal calculator holding the match   *)
(* counts and flags that calculator computes, plus the keyword hits of the *)
(* business-type classifier.  Time is counted in whole days, ratings in    *)
(* tenths of a star.  An optional value (undefined in the source) is the   *)
(* empty sequence, a present value v is <<v>>.                             *)
(*                                                                         *)
(* Spec      one invocation of the engine on each (page, profile) input    *)
(* SpecClock repeated invocations on the same input while days pass        *)
(* SpecLoss  calculateMonetizedLoss called directly with any two scores    *)
(* SpecContent one invocation on every combination of content indicators   *)
(* SpecRoute the analyze route serving one request                         *)
(* SpecRouteLive the same with its steps taken fairly                      *)
(* SpecVerify the verify-email route serving concurrent requests           *)
(* SpecForm  the email-gated input form under user actions and responses   *)
(***************************************************************************)
EXTENDS Integers, Sequences, FiniteSets, TLC

VARIABLES
  content,     \* the ScrapedContent handed to the engine (its pattern matches)
  gmbProfile,  \* the optional GMBProfile handed to the engine
  now,         \* Date.now(), in days
  result,      \* the CASHScoreResult of the last invocation, if any
  invokedAt,   \* the value of Date.now() the last invocation read, if any
  lossArgs,    \* the scores of a direct call of calculateMonetizedLoss, if any
  lossResult,  \* what that call returned, once it has returned
  request,     \* the analyze request being served and its deployment, if any
  pc,          \* where the handler of the analyze request stands
  calls,       \* what each collaborator of the analyze request has done
  aiSummary,   \* what generateAISummary returned, once it has returned
  analysisResult, \* the AnalysisResult the handler built, once built
  response,    \* the response of the analyze request, once sent
  displayed,   \* the offers as ResultViewer lists them, once rendered
  verificationCodes, \* the verificationCodes map of the verify-email route
  inflight,    \* the verify-email requests posted so far and their replies
  verifyNow,   \* Date.now() of the verify-email route, in steps of ten minutes
  mailer,      \* "sendgrid" when the mail provider keys are set, else "console"
  history,     \* the number of codes issued and the issues verified, in order
  form,        \* the state and the isLoading prop of the URLInputForm component
  pendingFetch, \* the verify-email fetches of the form that have not settled
  formLog      \* the last onSubmit call and the email last verified, if any

engineVars == <<content, gmbProfile, now, result, invokedAt, lossArgs, lossResult>>
routeVars == <<request, pc, calls, aiSummary, analysisResult, response, displayed>>
verifyVars == <<verificationCodes, inflight, verifyNow, mailer, history>>
formVars == <<form, pendingFetch, formLog>>
vars == <<engineVars, routeVars, verifyVars, formVars>>

None == <<>>
Some(v) == <<v>>
IsSome(o) == o # <<>>
Get(o) == o[1]

\* No analyze request is being served.
NoCalls == [fetch |-> "none", lookup |-> "none", completion |-> "none",
            delivery |-> "none"]
RouteIdle ==
  /\ request = None /\ pc = "idle" /\ calls = NoCalls /\ aiSummary = None
  /\ analysisResult = None /\ response = None /\ displayed = None

\* The verify-email route is not in use.
VerifyIdle ==
  /\ verificationCodes = None /\ inflight = None /\ verifyNow = 0
  /\ mailer = "console" /\ history = None

\* The input form is not mounted.
FormIdle == form = None /\ pendingFetch = {} /\ formLog = None

(* ---------------------------- bounds ----------------------------------- *)

\* Largest number of matches of one counted pattern on a page.
MaxMatches == 3
\* Largest total number of credential-pattern matches on a page.
MaxCredentialMatches == 5
\* Largest number of business categories whose keywords occur on one page.
MaxBusinessTypes == 2
\* Number of days the clock may advance beyond StartDay.
MaxTicks == 1
\* Number of verify-email requests posted in one behaviour.
MaxRequests == 3

(* ------------------------- program constants --------------------------- *)

BUSINESS_PROFIT_MULTIPLIERS ==
  [k \in {"dentist", "dental", "auto repair", "auto shop", "mechanic",
          "clinic", "medical", "law firm", "lawyer", "attorney",
          "real estate", "realtor", "property management",
          "corporate housing", "home services", "plumber", "electrician",
          "hvac", "restaurant", "cafe", "retail", "food"} |->
     CASE k \in {"dentist", "dental"} -> 200
       [] k \in {"auto repair", "auto shop", "mechanic"} -> 150
       [] k \in {"clinic", "medical"} -> 180
       [] k \in {"law firm", "lawyer", "attorney"} -> 300
       [] k \in {"real estate", "realtor"} -> 250
       [] k \in {"property management", "corporate housing"} -> 2000
       [] k \in {"home services", "plumber", "electrician", "hvac"} -> 120
       [] OTHER -> 112]

DEFAULT_PER_LEAD_VALUE == 112

MISSED_CALLS_PER_MONTH == 90

\* Age in days above which the most recent review counts as old.
OldReviewDays == 90

\* The first invocation happens on the first day on which a review dated
\* day 0 is old; a review dated day 1 is then still recent.
StartDay == OldReviewDays + 1

(* ----------------------------- arithmetic ------------------------------ *)

Min(a, b) == IF a < b THEN a ELSE b
Max(a, b) == IF a > b THEN a ELSE b

\* Math.round of the non-negative rational num/den: nearest integer, halves up.
MathRound(num, den) == (2 * num + den) \div (2 * den)

RECURSIVE SumScores(_)
SumScores(signals) ==
  IF signals = <<>> THEN 0
  ELSE Head(signals).score + SumScores(Tail(signals))

\* Array.prototype.find applied to the elements that pass its test, given in
\* array order: the first of them, or undefined.
FirstOf(hits) == IF hits = <<>> THEN None ELSE Some(Head(hits))

\* Array.prototype.slice(0, n)
Slice(seq, n) == SubSeq(seq, 1, Min(n, Len(seq)))

Signal(id, label, score, notes) ==
  [id |-> id, label |-> label, score |-> score, notes |-> notes]

(* --------------------------- signal calculators ------------------------ *)

\* Signal 1: Review Recency & Volume
ReviewRawScore(c) ==
  (IF c.review.reviewWidgets > 0 THEN 5 ELSE 0)
  + (IF c.review.reviewMentions >= 3 THEN 3 ELSE 0)
  + (IF c.review.hasRecentMentions THEN 2
     ELSE IF c.review.reviewMentions > 0 THEN 1 ELSE 0)

ReviewSignal(c) ==
  LET reviewScore == ReviewRawScore(c) IN
  Signal("signal_1_review_recency_volume", "Review Recency & Volume",
         Min(10, reviewScore),
         IF reviewScore >= 7 THEN "Strong review presence with recent activity"
         ELSE "Your reviews are old or missing. New customers see this and don't trust you.")

\* Variant: the top score needs more than five credential matches.
CredentialScoreAboveFive(c) ==
  LET credentialMatches == c.credential.credentialMatches
      hasCredentialSection == c.credential.hasCredentialSection IN
  IF credentialMatches > 5 THEN 9
  ELSE IF credentialMatches >= 3 THEN 7
  ELSE IF credentialMatches >= 1 /\ hasCredentialSection THEN 5
  ELSE IF credentialMatches >= 1 THEN 3
  ELSE 1

\* Signal 2: Credential Verification & Display
CredentialScore(c) ==
  LET credentialMatches == c.credential.credentialMatches
      hasCredentialSection == c.credential.hasCredentialSection IN
  IF credentialMatches >= 5 THEN 9
  ELSE IF credentialMatches >= 3 THEN 7
  ELSE IF credentialMatches >= 1 /\ hasCredentialSection THEN 5
  ELSE IF credentialMatches >= 1 THEN 3
  ELSE 1

CredentialSignal(c) ==
  LET credentialScore == CredentialScore(c) IN
  Signal("signal_2_credential_verification", "Credential Verification & Display",
         credentialScore,
         IF credentialScore >= 7 THEN "Strong credential display and verification"
         ELSE "Credentials not prominently displayed or verified")

\* Signal 3: Social Proof Density
SocialProofRawScore(c) ==
  (IF c.social.socialLinks >= 3 THEN 4
   ELSE IF c.social.socialLinks >= 1 THEN 2 ELSE 0)
  + (IF c.social.testimonialCount >= 3 THEN 4
     ELSE IF c.social.testimonialCount >= 1 THEN 2 ELSE 0)
  + (IF c.social.caseStudyMentions >= 1 THEN 2 ELSE 0)

SocialProofSignal(c) ==
  LET socialProofScore == SocialProofRawScore(c) IN
  Signal("signal_3_social_proof_density", "Social Proof Density",
         Min(10, socialProofScore),
         IF socialProofScore >= 7 THEN "High social proof density across multiple channels"
         ELSE "Limited social proof elements detected")

\* Signal 9: Trust Badge Presence
TrustBadgeRawScore(c) ==
  (IF c.trust.trustBadges >= 2 THEN 4
   ELSE IF c.trust.trustBadges >= 1 THEN 2 ELSE 0)
  + (IF c.trust.securityIndicators >= 2 THEN 3
     ELSE IF c.trust.securityIndicators >= 1 THEN 1 ELSE 0)
  + (IF c.trust.guaranteeMentions >= 1 THEN 3 ELSE 0)

TrustBadgeSignal(c) ==
  LET trustBadgeScore == TrustBadgeRawScore(c) IN
  Signal("signal_9_trust_badge_presence", "Trust Badge Presence",
         Min(10, trustBadgeScore),
         IF trustBadgeScore >= 7 THEN "Strong trust badges and security indicators"
         ELSE "Missing trust badges and security signals")

\* Variant: the profile's 0-100 score is passed through without scaling.
GmbSignalScoreUnscaled(profile) ==
  IF IsSome(profile) THEN Get(profile).score ELSE 0

\* gmbProfile?.score ? Math.round(gmbProfile.score / 10) : 0
GmbSignalScore(profile) ==
  IF IsSome(profile) /\ Get(profile).score # 0
  THEN MathRound(Get(profile).score, 10) ELSE 0

\* Signal: Google Business Profile (reputation pass-through)
GmbSignal(profile) ==
  LET gmbScore == GmbSignalScore(profile)
      gmbNotes ==
        IF IsSome(profile) /\ Get(profile).found
        THEN IF gmbScore >= 9 THEN "Excellent Google Business Profile detected."
             ELSE IF gmbScore >= 7 THEN "Good GMB Profile, but room for optimization."
             ELSE "Weak GMB Profile. Low ratings or activity detected."
        ELSE "GMB Profile not found. Critical Authority Signal Missing." IN
  Signal("signal_gmb_profile", "Google Business Profile Health", gmbScore, gmbNotes)

calculateAuthoritySignals(c, profile) ==
  <<ReviewSignal(c), CredentialSignal(c), SocialProofSignal(c),
    TrustBadgeSignal(c), GmbSignal(profile)>>

\* Signal 4: Conversion Friction Points
FrictionScore(c) ==
  Max(1, 10 - (IF c.friction.longForms THEN 2 ELSE 0)
            - (IF c.friction.multipleSteps THEN 2 ELSE 0)
            - (IF c.friction.unclearPricing THEN 3 ELSE 0)
            - (IF c.friction.noClearCTA THEN 3 ELSE 0))

FrictionSignal(c) ==
  LET frictionScore == FrictionScore(c) IN
  Signal("signal_4_conversion_friction", "Conversion Friction Points",
         frictionScore,
         IF frictionScore >= 7 THEN "Low friction conversion path detected"
         ELSE "High friction points blocking conversions")

\* Signal 5: Intent Signal Strength.  Each keyword family present adds 2.5;
\* the sum is kept in halves (5 per family) so that it stays an integer.
IntentScoreHalves(c) ==
  (IF c.intent.urgency THEN 5 ELSE 0) + (IF c.intent.value THEN 5 ELSE 0)
  + (IF c.intent.social THEN 5 ELSE 0) + (IF c.intent.action THEN 5 ELSE 0)

\* Variant: the note is chosen by the unrounded sum reaching 8.
IntentSignalNoteAtEight(c) ==
  LET halves == IntentScoreHalves(c) IN
  Signal("signal_5_intent_signal_strength", "Intent Signal Strength",
         Min(10, MathRound(halves, 2)),
         IF halves >= 16 THEN "Strong intent signals throughout content"
         ELSE "Weak intent signals - unclear value proposition")

IntentSignal(c) ==
  LET halves == IntentScoreHalves(c) IN
  Signal("signal_5_intent_signal_strength", "Intent Signal Strength",
         Min(10, MathRound(halves, 2)),
         IF halves >= 14 THEN "Strong intent signals throughout content"
         ELSE "Weak intent signals - unclear value proposition")

\* Signal 7: Value Proposition Clarity
ValuePropRawScore(c) ==
  (IF c.valueProps.unique THEN 2 ELSE 0) + (IF c.valueProps.benefit THEN 3 ELSE 0)
  + (IF c.valueProps.specific THEN 3 ELSE 0)
  + (IF c.valueProps.comparison THEN 2 ELSE 0)

ValuePropSignal(c) ==
  LET valuePropScore == ValuePropRawScore(c) IN
  Signal("signal_7_value_proposition_clarity", "Value Proposition Clarity",
         Min(10, valuePropScore),
         IF valuePropScore >= 7 THEN "Clear, specific value proposition"
         ELSE "Vague or generic value proposition")

\* Signal 8: Mobile Experience Quality
MobileRawScore(c) ==
  (IF c.mobile.responsive THEN 4 ELSE 0) + (IF c.mobile.touchFriendly THEN 2 ELSE 0)
  + (IF c.mobile.fastLoad THEN 2 ELSE 0) + (IF c.mobile.readable THEN 2 ELSE 0)

MobileSignal(c) ==
  LET mobileScore == MobileRawScore(c) IN
  Signal("signal_8_mobile_experience", "Mobile Experience Quality",
         Min(10, mobileScore),
         IF mobileScore >= 7 THEN "Optimized mobile experience detected"
         ELSE "Mobile experience needs improvement")

calculateContentSignals(c) ==
  <<FrictionSignal(c), IntentSignal(c), ValuePropSignal(c), MobileSignal(c)>>

\* Signal 6: Automation Infrastructure
AutomationRawScore(c) ==
  (IF c.automation.bookingSystem THEN 3 ELSE 0)
  + (IF c.automation.aiChatbot THEN 3 ELSE 0)
  + (IF c.automation.crmIntegration THEN 2 ELSE 0)
  + (IF c.automation.emailAutomation THEN 1 ELSE 0)
  + (IF c.automation.paymentSystem THEN 1 ELSE 0)

calculateSystemsSignals(c) ==
  LET automationScore == AutomationRawScore(c) IN
  <<Signal("signal_6_automation_infrastructure", "Automation Infrastructure",
           Min(10, automationScore),
           IF automationScore >= 7 THEN "Strong automation infrastructure in place"
           ELSE "No instant client connection is possible (only a slow contact form). This is a huge leak in your acquisition system.")>>

\* Signal 10: Growth Attribution Tracking
TrackingRawScore(c) ==
  (IF c.tracking.analytics THEN 3 ELSE 0) + (IF c.tracking.pixel THEN 2 ELSE 0)
  + (IF c.tracking.conversion THEN 2 ELSE 0) + (IF c.tracking.heatmap THEN 2 ELSE 0)
  + (IF c.tracking.attribution THEN 1 ELSE 0)

calculateHypergrowthSignals(c) ==
  LET trackingScore == TrackingRawScore(c) IN
  <<Signal("signal_10_growth_attribution", "Growth Attribution Tracking",
           Min(10, trackingScore),
           IF trackingScore >= 7 THEN "Comprehensive growth attribution tracking"
           ELSE "Missing or incomplete growth tracking")>>

(* ------------------------- category aggregation ------------------------ *)

\* (total, count) pairs for which (total / maxPossible) * 100, evaluated in
\* IEEE-754 double precision as the code does, falls just below the exact
\* value k + 1/2, so that Math.round yields k instead of k + 1.  For lists of
\* 1 to 5 signals scored 0..10 the only such pair is 23/40: 0.575 * 100 is
\* 57.49999999999999 in doubles.
FloatBelowHalf == {<<23, 4>>}

\* Normalize category score from signals (0-10 each) to 0-100
normalizeCategoryScore(signals) ==
  IF Len(signals) = 0 THEN 0
  ELSE LET total == SumScores(signals)
           maxPossible == Len(signals) * 10 IN
       IF <<total, Len(signals)>> \in FloatBelowHalf
       THEN MathRound(100 * total, maxPossible) - 1
       ELSE MathRound(100 * total, maxPossible)

IsOnPageSignal(s) == s.id # "signal_gmb_profile"

\* gmbProfile?.score || 0
GmbScore(profile) == IF IsSome(profile) THEN Get(profile).score ELSE 0

AuthorityScore(authoritySignals, profile) ==
  LET onPageAuthoritySignals == SelectSeq(authoritySignals, IsOnPageSignal)
      onPageAuthorityScore == normalizeCategoryScore(onPageAuthoritySignals)
      gmbScore == GmbScore(profile) IN
  MathRound(onPageAuthorityScore + gmbScore, 2)

\* Variant: the mean is truncated instead of rounded.
OverallScoreTruncated(contentScore, authorityScore, systemsScore, hypergrowthScore) ==
  (contentScore + authorityScore + systemsScore + hypergrowthScore) \div 4

OverallScore(contentScore, authorityScore, systemsScore, hypergrowthScore) ==
  MathRound(contentScore + authorityScore + systemsScore + hypergrowthScore, 4)

(* ------------------------------ issue ranker --------------------------- *)

IsLowSignal(s) == s.score < 5

\* Variant: the issue is raised for the lowest-scoring signal, not the first low one.
CategoryIssueWorstSignal(category, score, signals) ==
  IF score < 50
  THEN LET low == {i \in 1..Len(signals) : signals[i].score < 5} IN
       IF low # {}
       THEN LET w == CHOOSE i \in low :
                       \A j \in low : signals[i].score < signals[j].score
                                      \/ (signals[i].score = signals[j].score /\ i <= j) IN
            <<[id |-> <<category, signals[w].id>>,
               label |-> signals[w].notes,
               severity |-> IF score < 30 THEN "high" ELSE "medium"]>>
       ELSE <<>>
  ELSE <<>>

\* Variant: the issue is looked up among the signals scoring below 4.
CategoryIssueBelowFour(category, score, signals) ==
  IF score < 50
  THEN LET low == {i \in 1..Len(signals) : signals[i].score < 4} IN
       IF low # {}
       THEN LET f == CHOOSE i \in low : \A j \in low : i <= j IN
            <<[id |-> <<category, signals[f].id>>,
               label |-> signals[f].notes,
               severity |-> IF score < 30 THEN "high" ELSE "medium"]>>
       ELSE <<>>
  ELSE <<>>

CategoryIssue(category, score, signals) ==
  IF score < 50
  THEN LET lowSignal == FirstOf(SelectSeq(signals, IsLowSignal)) IN
       IF IsSome(lowSignal)
       THEN <<[id |-> <<category, Get(lowSignal).id>>,
               label |-> Get(lowSignal).notes,
               severity |-> IF score < 30 THEN "high" ELSE "medium"]>>
       ELSE <<>>
  ELSE <<>>

generatePriorityIssues(scores, signals) ==
  Slice(CategoryIssue("content", scores.content, signals.content)
        \o CategoryIssue("authority", scores.authority, signals.authority)
        \o CategoryIssue("systems", scores.systems, signals.systems)
        \o CategoryIssue("hypergrowth", scores.hypergrowth, signals.hypergrowth),
        5)

(* ------------------------ business type and loss ----------------------- *)

\* The keys of typeMapping in the order the code iterates them.
TypeOrder ==
  <<"Dentist", "Auto Repair", "Clinic", "Law Firm", "Real Estate", "Plumber",
    "Electrician", "HVAC", "Restaurant", "Cafe", "Retail", "Food">>

TypeNames == {TypeOrder[i] : i \in 1..Len(TypeOrder)}

\* String.prototype.toLowerCase on the labels detectBusinessType returns.
toLowerCase(type) ==
  CASE type = "Dentist" -> "dentist"
    [] type = "Auto Repair" -> "auto repair"
    [] type = "Clinic" -> "clinic"
    [] type = "Law Firm" -> "law firm"
    [] type = "Real Estate" -> "real estate"
    [] type = "Property Management" -> "property management"
    [] type = "Plumber" -> "plumber"
    [] type = "Electrician" -> "electrician"
    [] type = "HVAC" -> "hvac"
    [] type = "Restaurant" -> "restaurant"
    [] type = "Cafe" -> "cafe"
    [] type = "Retail" -> "retail"
    [] type = "Food" -> "food"
    [] OTHER -> type

\* c.business.priority: the text contains 'property management', 'corporate
\* housing' or 'multifamily'; c.business.keywords: the categories of
\* typeMapping that have at least one keyword contained in the text.
\* Variant: the general table is consulted before the priority phrases.
detectBusinessTypeTableFirst(c) ==
  LET hits == {i \in 1..Len(TypeOrder) : TypeOrder[i] \in c.business.keywords} IN
  IF hits # {} THEN Some(TypeOrder[CHOOSE i \in hits : \A j \in hits : i <= j])
  ELSE IF c.business.priority THEN Some("Property Management")
  ELSE None

detectBusinessType(c) ==
  IF c.business.priority THEN Some("Property Management")
  ELSE LET hits == {i \in 1..Len(TypeOrder) : TypeOrder[i] \in c.business.keywords} IN
       IF hits = {} THEN None
       ELSE Some(TypeOrder[CHOOSE i \in hits : \A j \in hits : i <= j])

PerLeadValue(businessType) ==
  IF IsSome(businessType)
  THEN LET key == toLowerCase(Get(businessType)) IN
       IF key \in DOMAIN BUSINESS_PROFIT_MULTIPLIERS
          /\ BUSINESS_PROFIT_MULTIPLIERS[key] # 0
       THEN BUSINESS_PROFIT_MULTIPLIERS[key]
       ELSE DEFAULT_PER_LEAD_VALUE
  ELSE DEFAULT_PER_LEAD_VALUE

\* Variant: the estimator switches off when either score is good.
calculateMonetizedLossEither(c, systemsScore, automationScore) ==
  IF systemsScore >= 50 \/ automationScore >= 5 THEN None
  ELSE Some(MISSED_CALLS_PER_MONTH * PerLeadValue(detectBusinessType(c)))

\* Variant: the estimator classifies the page by the keyword table first.
calculateMonetizedLossTableFirst(c, systemsScore, automationScore) ==
  IF systemsScore >= 50 /\ automationScore >= 5 THEN None
  ELSE Some(MISSED_CALLS_PER_MONTH * PerLeadValue(detectBusinessTypeTableFirst(c)))

\* Calculate monetized loss for missed calls
calculateMonetizedLoss(c, systemsScore, automationScore) ==
  IF systemsScore >= 50 /\ automationScore >= 5 THEN None
  ELSE Some(MISSED_CALLS_PER_MONTH * PerLeadValue(detectBusinessType(c)))

(* ----------------------------- offer generator ------------------------- *)

\* An Offer.  The reason is its text together with the amount interpolated
\* into it at <amount>, if any.
Offer(id, label, text, amount, priority, monetizedLoss) ==
  [id |-> id, label |-> label, reason |-> [text |-> text, amount |-> amount],
   priority |-> priority, monetizedLoss |-> monetizedLoss]

SignalById(signals, id) == LET HasId(s) == s.id = id IN FirstOf(SelectSeq(signals, HasId))

\* value || 0 for an optional number
OrZero(o) == IF IsSome(o) THEN Get(o) ELSE 0

\* Variant: three low trust signals are required instead of two.
AuthenticityOffersThreeLow(scores, signals) ==
  LET trustSignals ==
        SignalById(signals.authority, "signal_1_review_recency_volume")
        \o SignalById(signals.authority, "signal_2_credential_verification")
        \o SignalById(signals.authority, "signal_3_social_proof_density")
        \o SignalById(signals.authority, "signal_9_trust_badge_presence")
      lowTrustSignals == SelectSeq(trustSignals, IsLowSignal) IN
  IF scores.authority < 70 /\ Len(lowTrustSignals) >= 3
  THEN <<Offer("authenticity_overhaul", "Authenticity Overhaul Package",
               "ATTENTION: Significant Trust Barriers. We found major Authenticity Gaps that cause customers to choose a competitor. Solution: Comprehensive rebuild of reviews, credentials, and trust signals.", None,
               IF scores.authority < 40 THEN "high" ELSE "medium", None)>>
  ELSE <<>>

\* Rule 1: Authenticity Overhaul
AuthenticityOffers(scores, signals) ==
  LET trustSignals ==
        SignalById(signals.authority, "signal_1_review_recency_volume")
        \o SignalById(signals.authority, "signal_2_credential_verification")
        \o SignalById(signals.authority, "signal_3_social_proof_density")
        \o SignalById(signals.authority, "signal_9_trust_badge_presence")
      lowTrustSignals == SelectSeq(trustSignals, IsLowSignal) IN
  IF scores.authority < 70 /\ Len(lowTrustSignals) >= 2
  THEN <<Offer("authenticity_overhaul", "Authenticity Overhaul Package",
               "ATTENTION: Significant Trust Barriers. We found major Authenticity Gaps that cause customers to choose a competitor. Solution: Comprehensive rebuild of reviews, credentials, and trust signals.", None,
               IF scores.authority < 40 THEN "high" ELSE "medium", None)>>
  ELSE <<>>

\* Rule 2: Review Management System
ReviewManagementOffers(scores, signals) ==
  LET reviewSignal == SignalById(signals.authority, "signal_1_review_recency_volume") IN
  IF scores.authority < 70 /\ IsSome(reviewSignal) /\ Get(reviewSignal).score < 5
  THEN <<Offer("review_management", "Review Management System",
               "FIX: We provide a 5-Star Review Machine to instantly fix your trust problem and outrank competitors.", None,
               IF scores.authority < 40 THEN "high" ELSE "medium", None)>>
  ELSE <<>>

InvisibleReason == "INVISIBLE: We cannot find your Google Business Profile. You are invisible to local customers. We will claim, verify, and rank your profile #1."
WeakPresenceReason == "WEAK PRESENCE: Your Google Profile is unoptimized and losing traffic. We optimize photos, posts, and categories to dominate the Map Pack."

\* Variant: no fallback offer when the profile was not passed.
GmbOffersNoFallback(profile, clock) ==
  IF IsSome(profile)
  THEN LET gmb == Get(profile) IN
       (IF gmb.found /\ (OrZero(gmb.rating) < 45 \/ OrZero(gmb.reviewCount) < 40
                         \/ (IsSome(gmb.lastReviewDate)
                             /\ clock - Get(gmb.lastReviewDate) > OldReviewDays))
        THEN <<Offer("reputation_resurrection", "Reputation Resurrection",
                     "CRITICAL: Your Google Reputation is hurting you. < 4.5 Stars or low reviews means customers ignore you. We install an automated system to get 5-star reviews on autopilot.", None,
                     "high", None)>>
        ELSE <<>>)
       \o
       (IF ~gmb.found \/ gmb.score < 50
        THEN <<Offer("local_dominance", "Local Dominance Pack",
                     IF ~gmb.found THEN InvisibleReason ELSE WeakPresenceReason,
                     None, "high", None)>>
        ELSE <<>>)
  ELSE <<>>

\* Variant: a profile scoring exactly 50 still counts as weak.
GmbOffersInclusiveThreshold(profile, clock) ==
  IF IsSome(profile)
  THEN LET gmb == Get(profile) IN
       (IF gmb.found /\ (OrZero(gmb.rating) < 45 \/ OrZero(gmb.reviewCount) < 40
                         \/ (IsSome(gmb.lastReviewDate)
                             /\ clock - Get(gmb.lastReviewDate) > OldReviewDays))
        THEN <<Offer("reputation_resurrection", "Reputation Resurrection",
                     "CRITICAL: Your Google Reputation is hurting you. < 4.5 Stars or low reviews means customers ignore you. We install an automated system to get 5-star reviews on autopilot.", None,
                     "high", None)>>
        ELSE <<>>)
       \o
       (IF ~gmb.found \/ gmb.score <= 50
        THEN <<Offer("local_dominance", "Local Dominance Pack",
                     IF ~gmb.found THEN InvisibleReason ELSE WeakPresenceReason,
                     None, "high", None)>>
        ELSE <<>>)
  ELSE <<Offer("local_dominance", "Local Dominance Pack", InvisibleReason,
               None, "high", None)>>

\* Variant: an absent rating or review count does not count as low.
GmbOffersAbsentNotLow(profile, clock) ==
  IF IsSome(profile)
  THEN LET gmb == Get(profile)
           isLowRating == IsSome(gmb.rating) /\ Get(gmb.rating) < 45
           isLowVolume == IsSome(gmb.reviewCount) /\ Get(gmb.reviewCount) < 40
           isOldReviews ==
             IsSome(gmb.lastReviewDate)
             /\ clock - Get(gmb.lastReviewDate) > OldReviewDays IN
       (IF gmb.found /\ (isLowRating \/ isLowVolume \/ isOldReviews)
        THEN <<Offer("reputation_resurrection", "Reputation Resurrection",
                     "CRITICAL: Your Google Reputation is hurting you. < 4.5 Stars or low reviews means customers ignore you. We install an automated system to get 5-star reviews on autopilot.", None,
                     "high", None)>>
        ELSE <<>>)
       \o
       (IF ~gmb.found \/ gmb.score < 50
        THEN <<Offer("local_dominance", "Local Dominance Pack",
                     IF ~gmb.found THEN InvisibleReason ELSE WeakPresenceReason,
                     None, "high", None)>>
        ELSE <<>>)
  ELSE <<Offer("local_dominance", "Local Dominance Pack", InvisibleReason,
               None, "high", None)>>

\* Rule 3: GMB specific offers; clock is Date.now() in days.
GmbOffers(profile, clock) ==
  IF IsSome(profile)
  THEN LET gmb == Get(profile)
           isLowRating == OrZero(gmb.rating) < 45
           isLowVolume == OrZero(gmb.reviewCount) < 40
           isOldReviews ==
             IsSome(gmb.lastReviewDate)
             /\ clock - Get(gmb.lastReviewDate) > OldReviewDays IN
       (IF gmb.found /\ (isLowRating \/ isLowVolume \/ isOldReviews)
        THEN <<Offer("reputation_resurrection", "Reputation Resurrection",
                     "CRITICAL: Your Google Reputation is hurting you. < 4.5 Stars or low reviews means customers ignore you. We install an automated system to get 5-star reviews on autopilot.", None,
                     "high", None)>>
        ELSE <<>>)
       \o
       (IF ~gmb.found \/ gmb.score < 50
        THEN <<Offer("local_dominance", "Local Dominance Pack",
                     IF ~gmb.found THEN InvisibleReason ELSE WeakPresenceReason,
                     None, "high", None)>>
        ELSE <<>>)
  ELSE <<Offer("local_dominance", "Local Dominance Pack", InvisibleReason,
               None, "high", None)>>

\* Variant: the scalability package needs both signals to be low.
AutomationOffersBothLow(scores, signals, c) ==
  LET automationSignal == SignalById(signals.systems, "signal_6_automation_infrastructure")
      trackingSignal == SignalById(signals.hypergrowth, "signal_10_growth_attribution")
      hasLowAutomation == IsSome(automationSignal) /\ Get(automationSignal).score < 5
      hasLowTracking == IsSome(trackingSignal) /\ Get(trackingSignal).score < 5
      monetizedLoss ==
        calculateMonetizedLoss(c, scores.systems,
                               IF IsSome(automationSignal)
                               THEN Get(automationSignal).score ELSE 0) IN
  IF (scores.systems < 70 \/ scores.hypergrowth < 70)
     /\ (hasLowAutomation \/ hasLowTracking)
  THEN (IF hasLowAutomation
        THEN <<Offer("ai_receptionist", "24/7 AI Receptionist",
                     IF OrZero(monetizedLoss) # 0
                     THEN "URGENT: Your Phone Is Losing You $<amount>/month. No online booking system detected. Our AI receptionist handles calls and bookings 24/7."
                     ELSE "URGENT: Your Phone Is Losing You Money. No online booking system detected. Our AI receptionist handles calls and bookings 24/7.",
                     IF OrZero(monetizedLoss) # 0 THEN monetizedLoss ELSE None,
                     IF scores.systems < 40 THEN "high" ELSE "medium",
                     monetizedLoss)>>
        ELSE <<>>)
       \o
       (IF hasLowAutomation /\ hasLowTracking
        THEN <<Offer("scalability_architecture", "Scalability Architecture Package",
                     "STOP THE LEAKS: You Cannot Handle Growth. Your current system is manual, slow, and drops qualified leads. Solution: Complete automation setup, instant follow-up, and growth tracking.", None,
                     IF scores.systems < 40 \/ scores.hypergrowth < 40
                     THEN "high" ELSE "medium", None)>>
        ELSE <<>>)
  ELSE <<>>

\* Variant: the receptionist is also offered when only tracking is low.
AutomationOffersOnLowTracking(scores, signals, c) ==
  LET automationSignal == SignalById(signals.systems, "signal_6_automation_infrastructure")
      trackingSignal == SignalById(signals.hypergrowth, "signal_10_growth_attribution")
      hasLowAutomation == IsSome(automationSignal) /\ Get(automationSignal).score < 5
      hasLowTracking == IsSome(trackingSignal) /\ Get(trackingSignal).score < 5
      monetizedLoss ==
        calculateMonetizedLoss(c, scores.systems,
                               IF IsSome(automationSignal)
                               THEN Get(automationSignal).score ELSE 0) IN
  IF (scores.systems < 70 \/ scores.hypergrowth < 70)
     /\ (hasLowAutomation \/ hasLowTracking)
  THEN (IF hasLowAutomation \/ hasLowTracking
        THEN <<Offer("ai_receptionist", "24/7 AI Receptionist",
                     IF OrZero(monetizedLoss) # 0
                     THEN "URGENT: Your Phone Is Losing You $<amount>/month. No online booking system detected. Our AI receptionist handles calls and bookings 24/7."
                     ELSE "URGENT: Your Phone Is Losing You Money. No online booking system detected. Our AI receptionist handles calls and bookings 24/7.",
                     IF OrZero(monetizedLoss) # 0 THEN monetizedLoss ELSE None,
                     IF scores.systems < 40 THEN "high" ELSE "medium",
                     monetizedLoss)>>
        ELSE <<>>)
       \o
       (IF (hasLowAutomation /\ hasLowTracking)
           \/ scores.systems < 50 \/ scores.hypergrowth < 50
        THEN <<Offer("scalability_architecture", "Scalability Architecture Package",
                     "STOP THE LEAKS: You Cannot Handle Growth. Your current system is manual, slow, and drops qualified leads. Solution: Complete automation setup, instant follow-up, and growth tracking.", None,
                     IF scores.systems < 40 \/ scores.hypergrowth < 40
                     THEN "high" ELSE "medium", None)>>
        ELSE <<>>)
  ELSE <<>>

\* Rule 4: AI Receptionist and Scalability Architecture
AutomationOffers(scores, signals, c) ==
  LET automationSignal == SignalById(signals.systems, "signal_6_automation_infrastructure")
      trackingSignal == SignalById(signals.hypergrowth, "signal_10_growth_attribution")
      hasLowAutomation == IsSome(automationSignal) /\ Get(automationSignal).score < 5
      hasLowTracking == IsSome(trackingSignal) /\ Get(trackingSignal).score < 5
      monetizedLoss ==
        calculateMonetizedLoss(c, scores.systems,
                               IF IsSome(automationSignal)
                               THEN Get(automationSignal).score ELSE 0) IN
  IF (scores.systems < 70 \/ scores.hypergrowth < 70)
     /\ (hasLowAutomation \/ hasLowTracking)
  THEN (IF hasLowAutomation
        THEN <<Offer("ai_receptionist", "24/7 AI Receptionist",
                     IF OrZero(monetizedLoss) # 0
                     THEN "URGENT: Your Phone Is Losing You $<amount>/month. No online booking system detected. Our AI receptionist handles calls and bookings 24/7."
                     ELSE "URGENT: Your Phone Is Losing You Money. No online booking system detected. Our AI receptionist handles calls and bookings 24/7.",
                     IF OrZero(monetizedLoss) # 0 THEN monetizedLoss ELSE None,
                     IF scores.systems < 40 THEN "high" ELSE "medium",
                     monetizedLoss)>>
        ELSE <<>>)
       \o
       (IF (hasLowAutomation /\ hasLowTracking)
           \/ scores.systems < 50 \/ scores.hypergrowth < 50
        THEN <<Offer("scalability_architecture", "Scalability Architecture Package",
                     "STOP THE LEAKS: You Cannot Handle Growth. Your current system is manual, slow, and drops qualified leads. Solution: Complete automation setup, instant follow-up, and growth tracking.", None,
                     IF scores.systems < 40 \/ scores.hypergrowth < 40
                     THEN "high" ELSE "medium", None)>>
        ELSE <<>>)
  ELSE <<>>

\* The offers array of generateOffers before its final slice.
GeneratedOffers(scores, signals, c, detectedBusinessType, profile, clock) ==
  AuthenticityOffers(scores, signals)
  \o ReviewManagementOffers(scores, signals)
  \o GmbOffers(profile, clock)
  \o AutomationOffers(scores, signals, c)

\* Variant: the list is capped at five offers.
generateOffersCapFive(scores, signals, c, detectedBusinessType, profile, clock) ==
  Slice(GeneratedOffers(scores, signals, c, detectedBusinessType, profile, clock), 5)

\* Max 4 offers
generateOffers(scores, signals, c, detectedBusinessType, profile, clock) ==
  Slice(GeneratedOffers(scores, signals, c, detectedBusinessType, profile, clock), 4)

(* -------------------------------- engine ------------------------------- *)

calculateCASHScoreV2(c, profile, clock) ==
  LET detectedBusinessType == detectBusinessType(c)
      authoritySignals == calculateAuthoritySignals(c, profile)
      contentSignals == calculateContentSignals(c)
      systemsSignals == calculateSystemsSignals(c)
      hypergrowthSignals == calculateHypergrowthSignals(c)
      contentScore == normalizeCategoryScore(contentSignals)
      authorityScore == AuthorityScore(authoritySignals, profile)
      systemsScore == normalizeCategoryScore(systemsSignals)
      hypergrowthScore == normalizeCategoryScore(hypergrowthSignals)
      scores == [overall |-> OverallScore(contentScore, authorityScore,
                                          systemsScore, hypergrowthScore),
                 content |-> contentScore,
                 authority |-> authorityScore,
                 systems |-> systemsScore,
                 hypergrowth |-> hypergrowthScore]
      signals == [content |-> contentSignals, authority |-> authoritySignals,
                  systems |-> systemsSignals, hypergrowth |-> hypergrowthSignals] IN
  [scores |-> scores,
   signals |-> signals,
   priorityIssues |-> generatePriorityIssues(scores, signals),
   offers |-> generateOffers(scores, signals, c, detectedBusinessType, profile, clock),
   detectedBusinessType |-> detectedBusinessType]

(* -------------------------------- inputs ------------------------------- *)

Counts == 0..MaxMatches

ReviewInputs ==
  [reviewWidgets : Counts, reviewMentions : Counts, hasRecentMentions : BOOLEAN]
CredentialInputs ==
  [credentialMatches : 0..MaxCredentialMatches, hasCredentialSection : BOOLEAN]
SocialInputs ==
  [socialLinks : Counts, testimonialCount : Counts, caseStudyMentions : Counts]
TrustInputs ==
  [trustBadges : Counts, securityIndicators : Counts, guaranteeMentions : Counts]
FrictionInputs ==
  [longForms : BOOLEAN, multipleSteps : BOOLEAN, unclearPricing : BOOLEAN,
   noClearCTA : BOOLEAN]
IntentInputs ==
  [urgency : BOOLEAN, value : BOOLEAN, social : BOOLEAN, action : BOOLEAN]
ValuePropInputs ==
  [unique : BOOLEAN, benefit : BOOLEAN, specific : BOOLEAN, comparison : BOOLEAN]
MobileInputs ==
  [responsive : BOOLEAN, touchFriendly : BOOLEAN, fastLoad : BOOLEAN,
   readable : BOOLEAN]
AutomationInputs ==
  [bookingSystem : BOOLEAN, aiChatbot : BOOLEAN, crmIntegration : BOOLEAN,
   emailAutomation : BOOLEAN, paymentSystem : BOOLEAN]
TrackingInputs ==
  [analytics : BOOLEAN, pixel : BOOLEAN, conversion : BOOLEAN, heatmap : BOOLEAN,
   attribution : BOOLEAN]
BusinessInputs ==
  [priority : BOOLEAN,
   keywords : {k \in SUBSET TypeNames : Cardinality(k) <= MaxBusinessTypes}]

\* What the calculators find on a page with empty text, title and html.
BlankPage ==
  [review |-> [reviewWidgets |-> 0, reviewMentions |-> 0, hasRecentMentions |-> FALSE],
   credential |-> [credentialMatches |-> 0, hasCredentialSection |-> FALSE],
   social |-> [socialLinks |-> 0, testimonialCount |-> 0, caseStudyMentions |-> 0],
   trust |-> [trustBadges |-> 0, securityIndicators |-> 0, guaranteeMentions |-> 0],
   friction |-> [longForms |-> FALSE, multipleSteps |-> FALSE,
                 unclearPricing |-> TRUE, noClearCTA |-> TRUE],
   intent |-> [urgency |-> FALSE, value |-> FALSE, social |-> FALSE, action |-> FALSE],
   valueProps |-> [unique |-> FALSE, benefit |-> FALSE, specific |-> FALSE,
                   comparison |-> FALSE],
   mobile |-> [responsive |-> FALSE, touchFriendly |-> FALSE, fastLoad |-> TRUE,
               readable |-> FALSE],
   automation |-> [bookingSystem |-> FALSE, aiChatbot |-> FALSE,
                   crmIntegration |-> FALSE, emailAutomation |-> FALSE,
                   paymentSystem |-> FALSE],
   tracking |-> [analytics |-> FALSE, pixel |-> FALSE, conversion |-> FALSE,
                 heatmap |-> FALSE, attribution |-> FALSE],
   business |-> [priority |-> FALSE, keywords |-> {}]]

\* A page of middling quality: a review widget, three credential mentions, one
\* social link and one testimonial, two trust badges and a guarantee.
TypicalPage ==
  [review |-> [reviewWidgets |-> 1, reviewMentions |-> 0, hasRecentMentions |-> FALSE],
   credential |-> [credentialMatches |-> 3, hasCredentialSection |-> TRUE],
   social |-> [socialLinks |-> 1, testimonialCount |-> 1, caseStudyMentions |-> 0],
   trust |-> [trustBadges |-> 2, securityIndicators |-> 0, guaranteeMentions |-> 1],
   friction |-> [longForms |-> TRUE, multipleSteps |-> FALSE,
                 unclearPricing |-> FALSE, noClearCTA |-> FALSE],
   intent |-> [urgency |-> FALSE, value |-> TRUE, social |-> FALSE, action |-> TRUE],
   valueProps |-> [unique |-> FALSE, benefit |-> TRUE, specific |-> FALSE,
                   comparison |-> FALSE],
   mobile |-> [responsive |-> TRUE, touchFriendly |-> FALSE, fastLoad |-> TRUE,
               readable |-> TRUE],
   automation |-> [bookingSystem |-> TRUE, aiChatbot |-> FALSE,
                   crmIntegration |-> TRUE, emailAutomation |-> FALSE,
                   paymentSystem |-> FALSE],
   tracking |-> [analytics |-> TRUE, pixel |-> TRUE, conversion |-> FALSE,
                 heatmap |-> FALSE, attribution |-> FALSE],
   business |-> [priority |-> FALSE, keywords |-> {"Dentist"}]]

\* A page on which every positive pattern matches and no friction is found.
RichPage ==
  [review |-> [reviewWidgets |-> MaxMatches, reviewMentions |-> MaxMatches,
               hasRecentMentions |-> TRUE],
   credential |-> [credentialMatches |-> MaxCredentialMatches,
                   hasCredentialSection |-> TRUE],
   social |-> [socialLinks |-> MaxMatches, testimonialCount |-> MaxMatches,
               caseStudyMentions |-> MaxMatches],
   trust |-> [trustBadges |-> MaxMatches, securityIndicators |-> MaxMatches,
              guaranteeMentions |-> MaxMatches],
   friction |-> [longForms |-> FALSE, multipleSteps |-> FALSE,
                 unclearPricing |-> FALSE, noClearCTA |-> FALSE],
   intent |-> [urgency |-> TRUE, value |-> TRUE, social |-> TRUE, action |-> TRUE],
   valueProps |-> [unique |-> TRUE, benefit |-> TRUE, specific |-> TRUE,
                   comparison |-> TRUE],
   mobile |-> [responsive |-> TRUE, touchFriendly |-> TRUE, fastLoad |-> TRUE,
               readable |-> TRUE],
   automation |-> [bookingSystem |-> TRUE, aiChatbot |-> TRUE,
                   crmIntegration |-> TRUE, emailAutomation |-> TRUE,
                   paymentSystem |-> TRUE],
   tracking |-> [analytics |-> TRUE, pixel |-> TRUE, conversion |-> TRUE,
                 heatmap |-> TRUE, attribution |-> TRUE],
   business |-> [priority |-> FALSE, keywords |-> {}]]

BasePages == {BlankPage, TypicalPage, RichPage}

\* The pages that differ from base in what one calculator finds, that
\* calculator's matches ranging over every combination.
VaryOne(base) ==
  {[base EXCEPT !.review = v] : v \in ReviewInputs}
  \cup {[base EXCEPT !.credential = v] : v \in CredentialInputs}
  \cup {[base EXCEPT !.social = v] : v \in SocialInputs}
  \cup {[base EXCEPT !.trust = v] : v \in TrustInputs}
  \cup {[base EXCEPT !.friction = v] : v \in FrictionInputs}
  \cup {[base EXCEPT !.intent = v] : v \in IntentInputs}
  \cup {[base EXCEPT !.valueProps = v] : v \in ValuePropInputs}
  \cup {[base EXCEPT !.mobile = v] : v \in MobileInputs}
  \cup {[base EXCEPT !.automation = v] : v \in AutomationInputs}
  \cup {[base EXCEPT !.tracking = v] : v \in TrackingInputs}

\* The otherwise blank pages with every combination of business keywords.
ClassifierPages == {[BlankPage EXCEPT !.business = v] : v \in BusinessInputs}

\* The pages on which each calculator finds either nothing or everything.
CornerPages ==
  [review : {BlankPage.review, RichPage.review},
   credential : {BlankPage.credential, RichPage.credential},
   social : {BlankPage.social, RichPage.social},
   trust : {BlankPage.trust, RichPage.trust},
   friction : {BlankPage.friction, RichPage.friction},
   intent : {BlankPage.intent, RichPage.intent},
   valueProps : {BlankPage.valueProps, RichPage.valueProps},
   mobile : {BlankPage.mobile, RichPage.mobile},
   automation : {BlankPage.automation, RichPage.automation},
   tracking : {BlankPage.tracking, RichPage.tracking},
   business : {BlankPage.business}]

Contents ==
  CornerPages \cup ClassifierPages \cup UNION {VaryOne(base) : base \in BasePages}

Profile(found, rating, reviewCount, lastReviewDate, score) ==
  [found |-> found, rating |-> rating, reviewCount |-> reviewCount,
   lastReviewDate |-> lastReviewDate, score |-> score]

\* What searchGMBViaAPI returns when nothing is found.
NotFoundProfile == Profile(FALSE, None, None, None, 0)

\* Dates of the most recent review: none, one that is old on StartDay and one
\* that is exactly OldReviewDays old on StartDay.
ReviewDates == {None, Some(0), Some(1)}

\* Every profile shape with every score; ratings are in tenths of a star.
AllProfiles ==
  {None} \cup
  {Some(p) : p \in [found : BOOLEAN,
                    rating : {None, Some(44), Some(45)},
                    reviewCount : {None, Some(39), Some(40)},
                    lastReviewDate : ReviewDates,
                    score : 0..100]}

CoreScores == {0, 30, 49, 50, 98}

CoreProfiles ==
  {None} \cup
  {Some(p) : p \in {Profile(f, None, None, None, s) : f \in BOOLEAN, s \in CoreScores}
                   \cup {Profile(f, Some(44), Some(40), None, s) :
                           f \in BOOLEAN, s \in CoreScores}
                   \cup {Profile(f, Some(45), Some(40), d, s) :
                           f \in BOOLEAN, d \in ReviewDates \ {None},
                           s \in CoreScores}}

\* The (page, profile) pairs the engine is invoked with: every page with the
\* core profiles, and the base pages with every profile.
Inputs == (Contents \X CoreProfiles) \cup (BasePages \X AllProfiles)

(* ----------------------------- state machine --------------------------- *)

Init ==
  /\ \E in \in Inputs : content = in[1] /\ gmbProfile = in[2]
  /\ now = StartDay
  /\ result = None
  /\ invokedAt = None
  /\ lossArgs = None
  /\ lossResult = None
  /\ RouteIdle
  /\ VerifyIdle
  /\ FormIdle

\* One invocation of calculateCASHScoreV2 on the current inputs.
Analyze ==
  /\ result' = Some(calculateCASHScoreV2(content, gmbProfile, now))
  /\ invokedAt' = Some(now)
  /\ UNCHANGED <<content, gmbProfile, now, lossArgs, lossResult>>
  /\ UNCHANGED <<routeVars, verifyVars, formVars>>

Next == Analyze

Spec == Init /\ [][Next]_vars

\* The engine invoked repeatedly on the same inputs while time passes.
InitClock ==
  /\ content \in BasePages
  /\ gmbProfile \in AllProfiles
  /\ now = StartDay - 1
  /\ result = None
  /\ invokedAt = None
  /\ lossArgs = None
  /\ lossResult = None
  /\ RouteIdle
  /\ VerifyIdle
  /\ FormIdle

\* A day passes.
Tick ==
  /\ now < StartDay + MaxTicks
  /\ now' = now + 1
  /\ UNCHANGED <<content, gmbProfile, result, invokedAt, lossArgs, lossResult>>
  /\ UNCHANGED <<routeVars, verifyVars, formVars>>

NextClock == Analyze \/ Tick

SpecClock == InitClock /\ [][NextClock]_vars

\* calculateMonetizedLoss on its own, for every pair of scores.
LossPages == {c \in ClassifierPages : Cardinality(c.business.keywords) <= 1}

\* The scores calculateMonetizedLoss is called with.
LossArgs == [systemsScore : 0..100, automationScore : 0..10]

InitLoss ==
  /\ content \in LossPages
  /\ gmbProfile = None
  /\ now = StartDay
  /\ result = None
  /\ invokedAt = None
  /\ \E args \in LossArgs : lossArgs = Some(args)
  /\ lossResult = None
  /\ RouteIdle
  /\ VerifyIdle
  /\ FormIdle

\* One call of calculateMonetizedLoss; lossResult holds the returned value,
\* which may itself be undefined.
EstimateLoss ==
  /\ lossArgs # None
  /\ lossResult' = Some(calculateMonetizedLoss(content, Get(lossArgs).systemsScore,
                                                Get(lossArgs).automationScore))
  /\ UNCHANGED <<content, gmbProfile, now, result, invokedAt, lossArgs>>
  /\ UNCHANGED <<routeVars, verifyVars, formVars>>

NextLoss == EstimateLoss

SpecLoss == InitLoss /\ [][NextLoss]_vars

\* The pages on which the four content calculators find every combination of
\* their indicators, and the pages that vary the automation or the tracking
\* markers, everything else as on the blank page; no reputation profile.
ContentPages ==
  {[BlankPage EXCEPT !.friction = f, !.intent = i, !.valueProps = v, !.mobile = m] :
     f \in FrictionInputs, i \in IntentInputs, v \in ValuePropInputs,
     m \in MobileInputs}
  \cup {[BlankPage EXCEPT !.automation = a] : a \in AutomationInputs}
  \cup {[BlankPage EXCEPT !.tracking = t] : t \in TrackingInputs}

InitContent ==
  /\ content \in ContentPages
  /\ gmbProfile = None
  /\ now = StartDay
  /\ result = None
  /\ invokedAt = None
  /\ lossArgs = None
  /\ lossResult = None
  /\ RouteIdle
  /\ VerifyIdle
  /\ FormIdle

SpecContent == InitContent /\ [][Next]_vars

(* ------------------------ reputation lookup ---------------------------- *)

\* calculateGMBScore; rating in tenths of a star, the review age in days.
calculateGMBScore(rating, reviewCount, daysSinceReview, responseRate) ==
  (IF rating >= 48 THEN 30 ELSE IF rating >= 45 THEN 25
   ELSE IF rating >= 40 THEN 15 ELSE 5)
  + (IF reviewCount >= 100 THEN 30 ELSE IF reviewCount >= 50 THEN 20
     ELSE IF reviewCount >= 20 THEN 10 ELSE 0)
  + (IF daysSinceReview <= 7 THEN 20 ELSE IF daysSinceReview <= 30 THEN 15
     ELSE IF daysSinceReview <= 90 THEN 5 ELSE 0)
  + (IF responseRate >= 90 THEN 20 ELSE IF responseRate >= 50 THEN 10 ELSE 0)

\* The profile simulated for a page that links to a maps listing.
simulateGMBData(clock) ==
  Profile(TRUE, Some(42), Some(25), Some(clock - 45),
          calculateGMBScore(42, 25, 45, 20))

\* The placeholder search: a perfect profile for a name containing "test",
\* not found otherwise.
searchGMBViaAPI(nameHasTest, clock) ==
  IF nameHasTest THEN Profile(TRUE, Some(49), Some(150), Some(clock), 98)
  ELSE NotFoundProfile

\* listing says whether the html links to a maps listing and whether the
\* business name contains "test".
analyzeGMB(listing, clock) ==
  IF listing.hasMapsLink THEN simulateGMBData(clock)
  ELSE searchGMBViaAPI(listing.nameHasTest, clock)

Listings == [hasMapsLink : BOOLEAN, nameHasTest : BOOLEAN]

(* --------------------------- display order ----------------------------- *)

\* NaN is the absent number.
NaN == None

\* ToNumber of a priority: "high", "medium" and "low" are not numeric strings.
ToNumber(priority) == NaN

\* Subtraction of two numbers either of which may be NaN.
Subtract(x, y) == IF x = NaN \/ y = NaN THEN NaN ELSE Some(Get(x) - Get(y))

priorityOrder(priority) ==
  CASE priority = "high" -> 3 [] priority = "medium" -> 2 [] priority = "low" -> 1

\* The comparison function each component passes to Array.prototype.sort.
compareOffers(component, a, b) ==
  IF a.id = "ai_receptionist" THEN Some(0 - 1)
  ELSE IF b.id = "ai_receptionist" THEN Some(1)
  ELSE IF component = "route"
       THEN Subtract(ToNumber(b.priority), ToNumber(a.priority))
       ELSE Some(priorityOrder(b.priority) - priorityOrder(a.priority))

\* SortCompare of Array.prototype.sort: a NaN result counts as +0.
SortCompare(component, a, b) ==
  LET v == compareOffers(component, a, b) IN IF v = NaN THEN 0 ELSE Get(v)

\* One insertion of the stable sort: x moves left past every element it
\* compares below.
RECURSIVE InsertOffer(_, _, _)
InsertOffer(component, sorted, x) ==
  IF sorted = <<>> THEN <<x>>
  ELSE LET last == sorted[Len(sorted)] IN
       IF SortCompare(component, x, last) < 0
       THEN InsertOffer(component, SubSeq(sorted, 1, Len(sorted) - 1), x) \o <<last>>
       ELSE sorted \o <<x>>

\* offers.sort(compare) as the named component calls it.
RECURSIVE sortOffers(_, _)
sortOffers(component, offers) ==
  IF offers = <<>> THEN <<>>
  ELSE InsertOffer(component,
                   sortOffers(component, SubSeq(offers, 1, Len(offers) - 1)),
                   offers[Len(offers)])

(* ------------------------------ summary -------------------------------- *)

Bullet(text, value) == [text |-> text, value |-> value]

\* lossText: the monetized loss of the returned ai_receptionist offer, or
\* the word money.  The first handler wraps the amount in a span.
LossText(version, scoreResult) ==
  LET HasId(o) == o.id = "ai_receptionist"
      aiReceptionistOffer == FirstOf(SelectSeq(scoreResult.offers, HasId))
      lossAmount == IF IsSome(aiReceptionistOffer)
                    THEN Get(aiReceptionistOffer).monetizedLoss ELSE None IN
  IF OrZero(lossAmount) # 0
  THEN [text |-> IF version = 1
                 THEN "<span class=font-bold text-red-600>$<amount></span>"
                 ELSE "$<amount>",
        amount |-> lossAmount]
  ELSE [text |-> "money", amount |-> None]

HookLine(text, lossText) == [text |-> text, lossText |-> lossText]

DefaultHook(version, scoreResult) ==
  HookLine("Hook: Stop losing money! Fix the major Trust Barriers and the <lossText>/month call leak today.",
           LossText(version, scoreResult))

\* The summary returned from the catch block.
CatchSummary(version, scoreResult) ==
  [shortBullets |->
     IF version = 1
     THEN <<Bullet("Your reviews are old. New customers see this and choose your competitor.", None),
            Bullet("You are manually following up with leads--you're too slow and leads are slipping away (Systemic Neglect).", None),
            Bullet("Overall CASH score: <value>/100.", Some(scoreResult.scores.overall))>>
     ELSE <<IF scoreResult.scores.authority < 50
            THEN Bullet("Your reviews are old. New customers see this and choose your competitor.", None)
            ELSE Bullet("Authority: <value>/100 - trust signals weak",
                        Some(scoreResult.scores.authority)),
            IF scoreResult.scores.systems < 50
            THEN Bullet("You are manually following up with leads--you're too slow and leads are slipping away (Systemic Neglect).", None)
            ELSE Bullet("Systems: <value>/100 - automation gaps detected",
                        Some(scoreResult.scores.systems)),
            IF scoreResult.scores.content < 50
            THEN Bullet("We can't easily find proof you're licensed/certified. Customers can't trust you.", None)
            ELSE Bullet("Content: <value>/100 - needs improvement",
                        Some(scoreResult.scores.content)),
            Bullet("Overall CASH score: <value>/100", Some(scoreResult.scores.overall))>>,
   oneLineHook |-> DefaultHook(version, scoreResult)]

\* fallbackBullets of the second handler, used when the reply has no array.
FallbackBullets(version, scoreResult) ==
  IF version = 1 THEN <<Bullet("Error generating summary.", None)>>
  ELSE <<IF scoreResult.scores.authority < 50
         THEN Bullet("Your reviews are old. New customers see this and choose your competitor.", None)
         ELSE Bullet("Authority score: <value>/100 - trust signals weak",
                     Some(scoreResult.scores.authority)),
         IF scoreResult.scores.systems < 50
         THEN Bullet("You are manually following up with leads--you're too slow and leads are slipping away (Systemic Neglect).", None)
         ELSE Bullet("Systems score: <value>/100 - automation gaps detected",
                     Some(scoreResult.scores.systems)),
         IF scoreResult.scores.content < 50
         THEN Bullet("We can't easily find proof you're licensed/certified. Customers can't trust you.", None)
         ELSE Bullet("Content score: <value>/100 - needs improvement",
                     Some(scoreResult.scores.content)),
         Bullet("Overall CASH score: <value>/100", Some(scoreResult.scores.overall))>>

\* The summary built from a reply that parsed as a JSON object.
ParsedSummary(version, scoreResult, parsed) ==
  [shortBullets |-> IF IsSome(parsed.shortBullets) THEN Get(parsed.shortBullets)
                    ELSE FallbackBullets(version, scoreResult),
   oneLineHook |-> IF IsSome(parsed.oneLineHook) THEN Get(parsed.oneLineHook)
                   ELSE DefaultHook(version, scoreResult)]

\* Variant: a failed or unparsable completion is not caught.
generateAISummaryNoCatch(version, scoreResult, completion) ==
  IF completion.kind = "json"
  THEN Some(ParsedSummary(version, scoreResult, completion))
  ELSE None

\* generateAISummary of either handler; completion is what the chat
\* completion call did.  The value is absent when the function throws.
generateAISummary(version, scoreResult, completion) ==
  IF completion.kind = "json"
  THEN Some(ParsedSummary(version, scoreResult, completion))
  ELSE Some(CatchSummary(version, scoreResult))

\* What the chat completion call can do: throw, reply with text that is not
\* JSON (or not an object), or reply with an object that has or lacks an
\* array shortBullets and a non-empty oneLineHook.
GeneratedBullets ==
  <<Bullet("Customers cannot book online, so they call a competitor.", None),
    Bullet("Nobody answers after hours.", None)>>
GeneratedHook ==
  HookLine("Stop the call leak today.", [text |-> "", amount |-> None])
Completions ==
  [kind : {"throws", "unparsable"}, shortBullets : {None}, oneLineHook : {None}]
  \cup [kind : {"json"}, shortBullets : {None, Some(GeneratedBullets)},
        oneLineHook : {None, Some(GeneratedHook)}]

(* --------------------------- lead delivery ----------------------------- *)

\* What the webhook fetch can do once it settles.
Deliveries == {"ok", "non_ok", "throws"}

\* Variant: a throwing webhook fetch propagates to the handler.
sendLeadDataRethrows(version, outcome) ==
  IF outcome = "throws" THEN "thrown" ELSE "returned"

\* The delivery step of either handler (sendLeadData in the first, the
\* inline try/catch in the second): every outcome is logged and swallowed.
sendLeadData(version, outcome) == "returned"

(* --------------------------- analyze route ----------------------------- *)

\* An analyze request and its deployment: which of the two POST handlers
\* serves it, whether GOOGLE_SHEET_WEBHOOK_URL is set, and the posted body.
Requests ==
  [handler : {1, 2}, webhook : BOOLEAN, body : {"json"},
   url : {"missing", "malformed", "bare_host", "absolute"},
   email : {"absent", "string", "not_string"}]
  \cup [handler : {1, 2}, webhook : BOOLEAN, body : {"not_json"},
        url : {"missing"}, email : {"absent"}]

\* The 400 error of the input checks, if any.  Only the first handler puts
\* https:// in front of a url without protocol before parsing it.
ValidationError(req) ==
  IF req.handler = 1
  THEN IF req.url = "missing" \/ req.email = "not_string"
       THEN Some("Valid URL and email are required")
       ELSE IF req.url = "malformed" THEN Some("Invalid URL format") ELSE None
  ELSE IF req.url = "missing" THEN Some("Valid URL is required")
       ELSE IF req.email = "not_string" THEN Some("Invalid email format")
       ELSE IF req.url \in {"malformed", "bare_host"} THEN Some("Invalid URL format")
       ELSE None

Response(status, error, body) == [status |-> status, error |-> error, body |-> body]

AnalysisFailed == Response(500, Some("Analysis failed"), None)

\* The AnalysisResult object; only the first handler sorts the offers.
BuildResult(req, scraped, profile, scoreResult, summary, clock) ==
  [url |-> "absolute",
   timestamp |-> clock,
   clientEmail |-> IF req.email = "string" THEN Some("string") ELSE None,
   detectedBusinessType |-> scoreResult.detectedBusinessType,
   scores |-> scoreResult.scores,
   signals |-> scoreResult.signals,
   priorityIssues |-> scoreResult.priorityIssues,
   offers |-> IF req.handler = 1 THEN sortOffers("route", scoreResult.offers)
              ELSE scoreResult.offers,
   aiSummary |-> summary,
   gmbProfile |-> profile,
   scrapedContent |-> scraped]

\* A page whose trust signals are half strong and half absent, and which
\* shows no automation.
MixedPage ==
  [BlankPage EXCEPT !.review = RichPage.review,
                    !.credential = RichPage.credential]

\* The pages served at the requested url.
RoutePages == BasePages \cup {MixedPage}

\* What scrapeUrl returns after a failed fetch: the host name as title, a
\* fixed sentence naming the url as text, and empty html; the url may hold
\* a priority phrase or a business keyword.
FallbackPages ==
  {[BlankPage EXCEPT !.business = v] :
     v \in [priority : BOOLEAN, keywords : {{}, {"Dentist"}}]}

InitRoute ==
  /\ content \in RoutePages
  /\ gmbProfile = None
  /\ now = StartDay
  /\ result = None
  /\ invokedAt = None
  /\ lossArgs = None
  /\ lossResult = None
  /\ request \in {Some(req) : req \in Requests}
  /\ pc = "received"
  /\ calls = NoCalls
  /\ aiSummary = None
  /\ analysisResult = None
  /\ response = None
  /\ displayed = None
  /\ VerifyIdle
  /\ FormIdle

\* request.json() and the input checks, up to the call of scrapeUrl.
Validate ==
  /\ pc = "received"
  /\ LET req == Get(request) IN
     IF req.body = "not_json"
     THEN /\ response' = Some(AnalysisFailed)
          /\ pc' = "responded"
          /\ UNCHANGED calls
     ELSE IF ValidationError(req) # None
     THEN /\ response' = Some(Response(400, ValidationError(req), None))
          /\ pc' = "responded"
          /\ UNCHANGED calls
     ELSE /\ pc' = "scraping"
          /\ calls' = [calls EXCEPT !.fetch = "pending"]
          /\ UNCHANGED response
  /\ UNCHANGED <<engineVars, request, aiSummary, analysisResult, displayed>>
  /\ UNCHANGED <<verifyVars, formVars>>

\* The page fetch settles: scrapeUrl returns the page, or its fallback
\* content after any failure; analyzeGMB is called next.
ScrapeSettles ==
  /\ pc = "scraping"
  /\ \/ /\ calls' = [calls EXCEPT !.fetch = "ok", !.lookup = "pending"]
        /\ UNCHANGED content
     \/ /\ calls' = [calls EXCEPT !.fetch = "failed", !.lookup = "pending"]
        /\ content' \in FallbackPages
  /\ pc' = "looking_up"
  /\ UNCHANGED <<gmbProfile, now, result, invokedAt, lossArgs, lossResult,
                 request, aiSummary, analysisResult, response, displayed>>
  /\ UNCHANGED <<verifyVars, formVars>>

\* The promise of analyzeGMB settles.  A returned profile is scored and the
\* summary is requested; a rejection reaches the catch block of the handler.
\* After a failed fetch the html is empty and holds no maps link.
LookupSettles ==
  /\ pc = "looking_up"
  /\ \/ /\ \E listing \in Listings :
             /\ calls.fetch = "failed" => ~listing.hasMapsLink
             /\ gmbProfile' = Some(analyzeGMB(listing, now))
        /\ result' = Some(calculateCASHScoreV2(content, gmbProfile', now))
        /\ invokedAt' = Some(now)
        /\ calls' = [calls EXCEPT !.lookup = "returned", !.completion = "pending"]
        /\ pc' = "summarizing"
        /\ UNCHANGED response
     \/ /\ calls' = [calls EXCEPT !.lookup = "rejected"]
        /\ response' = Some(AnalysisFailed)
        /\ pc' = "responded"
        /\ UNCHANGED <<gmbProfile, result, invokedAt>>
  /\ UNCHANGED <<content, now, lossArgs, lossResult, request, aiSummary,
                 analysisResult, displayed>>
  /\ UNCHANGED <<verifyVars, formVars>>

\* The chat completion call settles: generateAISummary returns, the result
\* object is built and lead delivery starts; without a webhook url delivery
\* returns at once and the result is sent.
CompletionSettles ==
  /\ pc = "summarizing"
  /\ \E completion \in Completions :
       LET req == Get(request)
           summary == generateAISummary(req.handler, Get(result), completion) IN
       IF summary = None
       THEN /\ calls' = [calls EXCEPT !.completion = completion.kind]
            /\ response' = Some(AnalysisFailed)
            /\ pc' = "responded"
            /\ UNCHANGED <<aiSummary, analysisResult>>
       ELSE LET built == BuildResult(req, content, Get(gmbProfile), Get(result),
                                     Get(summary), now) IN
            /\ aiSummary' = summary
            /\ analysisResult' = Some(built)
            /\ IF req.webhook
               THEN /\ calls' = [calls EXCEPT !.completion = completion.kind,
                                              !.delivery = "pending"]
                    /\ pc' = "delivering"
                    /\ UNCHANGED response
               ELSE /\ calls' = [calls EXCEPT !.completion = completion.kind,
                                              !.delivery = "no_url"]
                    /\ response' = Some(Response(200, None, Some(built)))
                    /\ pc' = "responded"
  /\ UNCHANGED <<engineVars, request, displayed>>
  /\ UNCHANGED <<verifyVars, formVars>>

\* The webhook fetch settles and the handler sends its response.
DeliverySettles ==
  /\ pc = "delivering"
  /\ \E outcome \in Deliveries :
       /\ calls' = [calls EXCEPT !.delivery = outcome]
       /\ response' = IF sendLeadData(Get(request).handler, outcome) = "thrown"
                      THEN Some(AnalysisFailed)
                      ELSE Some(Response(200, None, analysisResult))
  /\ pc' = "responded"
  /\ UNCHANGED <<engineVars, request, aiSummary, analysisResult, displayed>>
  /\ UNCHANGED <<verifyVars, formVars>>

\* A fetch without time limit never settles: the server keeps the page
\* fetch or the webhook call open and the handler stays at its await.
Hang ==
  /\ \/ pc = "scraping" /\ calls' = [calls EXCEPT !.fetch = "hangs"]
     \/ pc = "delivering" /\ calls' = [calls EXCEPT !.delivery = "hangs"]
  /\ pc' = "hung"
  /\ UNCHANGED <<engineVars, request, aiSummary, analysisResult, response, displayed>>
  /\ UNCHANGED <<verifyVars, formVars>>

\* ResultViewer renders a successful result and sorts its offers.
Render ==
  /\ pc = "responded"
  /\ Get(response).status = 200
  /\ displayed' = Some(sortOffers("viewer", Get(Get(response).body).offers))
  /\ pc' = "rendered"
  /\ UNCHANGED <<engineVars, request, calls, aiSummary, analysisResult, response>>
  /\ UNCHANGED <<verifyVars, formVars>>

NextRoute ==
  \/ Validate \/ ScrapeSettles \/ LookupSettles \/ CompletionSettles
  \/ DeliverySettles \/ Hang \/ Render

SpecRoute == InitRoute /\ [][NextRoute]_vars

\* A well-formed request for a blank page under each handler, with and
\* without a webhook url.
InitRouteLive ==
  /\ InitRoute
  /\ content = BlankPage
  /\ Get(request).body = "json" /\ Get(request).url = "absolute"
  /\ Get(request).email = "absent"

\* Those requests when every enabled step of the handler, of its
\* collaborators and of the client is eventually taken.
SpecRouteLive == InitRouteLive /\ [][NextRoute]_vars /\ WF_vars(NextRoute)

(* -------------------------- email verification ------------------------- *)

\* The addresses clients post; two of them differ in case only, and only
\* the lower-case one is the address with the fixed code.
Emails == {"test@example.com", "Test@Example.com", "not-an-address"}

\* email.toLowerCase()
emailKey(email) == IF email = "Test@Example.com" THEN "test@example.com" ELSE email

EmailKeys == {emailKey(e) : e \in Emails}

\* emailRegex.test(email)
IsEmailAddress(email) == email # "not-an-address"

\* The six-digit codes generateCode may draw.
Codes == {"123456", "654321"}

\* CODE_EXPIRATION_MS, ten minutes, in steps of ten minutes.
CODE_EXPIRATION == 1

\* The verify-email clock runs until a code issued at the start has expired.
LastVerifyTime == CODE_EXPIRATION + 1

EmptyStore == [k \in EmailKeys |-> None]

Reply(status, success, text) == [status |-> status, success |-> success, text |-> text]

\* Variant: a code request keeps the entry the email already has.
requestCodeKeepsExisting(store, email, drawn, clock, issue) ==
  IF ~IsEmailAddress(email)
  THEN [store |-> store, reply |-> Some(Reply(400, FALSE, "Invalid email format")), stored |-> FALSE]
  ELSE LET verificationCode == IF email = "test@example.com" THEN "123456" ELSE drawn IN
       [store |-> IF store[emailKey(email)] # None THEN store
                  ELSE [store EXCEPT ![emailKey(email)] =
                          Some([code |-> verificationCode,
                                expiresAt |-> clock + CODE_EXPIRATION,
                                issue |-> issue])],
        reply |-> None,
        stored |-> TRUE]

\* The code-request branch up to the sending of the mail: the reply for a
\* malformed address, otherwise the store with the new entry.  issue numbers
\* the code requests that stored a code; it is not part of the program state.
requestCode(store, email, drawn, clock, issue) ==
  IF ~IsEmailAddress(email)
  THEN [store |-> store, reply |-> Some(Reply(400, FALSE, "Invalid email format")), stored |-> FALSE]
  ELSE LET verificationCode == IF email = "test@example.com" THEN "123456" ELSE drawn IN
       [store |-> [store EXCEPT ![emailKey(email)] =
                     Some([code |-> verificationCode,
                           expiresAt |-> clock + CODE_EXPIRATION,
                           issue |-> issue])],
        reply |-> None,
        stored |-> TRUE]

\* Variant: a verified code stays in the store.
verifyCodeKeepsEntry(store, email, code, clock) ==
  LET stored == store[emailKey(email)] IN
  IF stored = None
  THEN [store |-> store,
        reply |-> Reply(400, FALSE, "No verification code found for this email. Please request a new code.")]
  ELSE IF clock > Get(stored).expiresAt
  THEN [store |-> [store EXCEPT ![emailKey(email)] = None],
        reply |-> Reply(400, FALSE, "Verification code has expired. Please request a new code.")]
  ELSE IF Get(stored).code # code
  THEN [store |-> store, reply |-> Reply(400, FALSE, "Invalid verification code.")]
  ELSE [store |-> store, reply |-> Reply(200, TRUE, "Email verified successfully.")]

\* Variant: a code is already expired at its expiry time.
verifyCodeExpiredAtDeadline(store, email, code, clock) ==
  LET stored == store[emailKey(email)] IN
  IF stored = None
  THEN [store |-> store,
        reply |-> Reply(400, FALSE, "No verification code found for this email. Please request a new code.")]
  ELSE IF clock >= Get(stored).expiresAt
  THEN [store |-> [store EXCEPT ![emailKey(email)] = None],
        reply |-> Reply(400, FALSE, "Verification code has expired. Please request a new code.")]
  ELSE IF Get(stored).code # code
  THEN [store |-> store, reply |-> Reply(400, FALSE, "Invalid verification code.")]
  ELSE [store |-> [store EXCEPT ![emailKey(email)] = None],
        reply |-> Reply(200, TRUE, "Email verified successfully.")]

\* Variant: a wrong code removes the entry.
verifyCodeDropsOnMismatch(store, email, code, clock) ==
  LET stored == store[emailKey(email)] IN
  IF stored = None
  THEN [store |-> store,
        reply |-> Reply(400, FALSE, "No verification code found for this email. Please request a new code.")]
  ELSE IF clock > Get(stored).expiresAt
  THEN [store |-> [store EXCEPT ![emailKey(email)] = None],
        reply |-> Reply(400, FALSE, "Verification code has expired. Please request a new code.")]
  ELSE IF Get(stored).code # code
  THEN [store |-> [store EXCEPT ![emailKey(email)] = None],
        reply |-> Reply(400, FALSE, "Invalid verification code.")]
  ELSE [store |-> [store EXCEPT ![emailKey(email)] = None],
        reply |-> Reply(200, TRUE, "Email verified successfully.")]

\* The verify branch: the store afterwards and the reply.
verifyCode(store, email, code, clock) ==
  LET stored == store[emailKey(email)] IN
  IF stored = None
  THEN [store |-> store,
        reply |-> Reply(400, FALSE, "No verification code found for this email. Please request a new code.")]
  ELSE IF clock > Get(stored).expiresAt
  THEN [store |-> [store EXCEPT ![emailKey(email)] = None],
        reply |-> Reply(400, FALSE, "Verification code has expired. Please request a new code.")]
  ELSE IF Get(stored).code # code
  THEN [store |-> store, reply |-> Reply(400, FALSE, "Invalid verification code.")]
  ELSE [store |-> [store EXCEPT ![emailKey(email)] = None],
        reply |-> Reply(200, TRUE, "Email verified successfully.")]

RequestIds == 1..MaxRequests

\* issuedBefore is the number of codes issued when a verify request was
\* handled; like history it is not part of the program state.
NoRequest == [pc |-> "unused", email |-> None, code |-> None, reply |-> None,
              issuedBefore |-> None]

\* What the mail provider can do once its call settles.
MailOutcomes == {"ok", "non_ok", "throws"}

InitVerify ==
  /\ content = BlankPage
  /\ gmbProfile = None
  /\ now = StartDay
  /\ result = None
  /\ invokedAt = None
  /\ lossArgs = None
  /\ lossResult = None
  /\ RouteIdle
  /\ FormIdle
  /\ verificationCodes = EmptyStore
  /\ inflight = [r \in RequestIds |-> NoRequest]
  /\ verifyNow = 0
  /\ mailer \in {"console", "sendgrid"}
  /\ history = [issued |-> 0, verified |-> <<>>]

\* A client posts a request; the handler starts and waits for the body.
\* Request numbers are handed out in order.
Post(r) ==
  /\ inflight[r].pc = "unused"
  /\ IF r = 1 THEN TRUE ELSE inflight[r - 1].pc # "unused"
  /\ inflight' = [inflight EXCEPT ![r].pc = "received"]
  /\ UNCHANGED <<formVars, engineVars, routeVars, verificationCodes, verifyNow, mailer, history>>

\* The body has arrived without email.
HandleMissingEmail(r) ==
  /\ inflight[r].pc = "received"
  /\ inflight' = [inflight EXCEPT ![r].pc = "done",
                                  ![r].reply = Some(Reply(400, FALSE, "Email is required"))]
  /\ UNCHANGED <<formVars, engineVars, routeVars, verificationCodes, verifyNow, mailer, history>>

\* The body has arrived with an email and no code: a code is generated and
\* stored, then mailed when a mail provider is configured.
HandleCodeRequest(r) ==
  /\ inflight[r].pc = "received"
  /\ \E email \in Emails, drawn \in Codes :
       LET rc == requestCode(verificationCodes, email, drawn, verifyNow,
                             history.issued + 1)
           posted == [inflight EXCEPT ![r].email = Some(email)] IN
       /\ verificationCodes' = rc.store
       /\ history' = IF rc.stored THEN [history EXCEPT !.issued = @ + 1] ELSE history
       /\ inflight' =
            IF rc.reply # None
            THEN [posted EXCEPT ![r].pc = "done", ![r].reply = rc.reply]
            ELSE IF mailer = "sendgrid"
            THEN [posted EXCEPT ![r].pc = "sending"]
            ELSE [posted EXCEPT ![r].pc = "done",
                                ![r].reply = Some(Reply(200, TRUE, "Verification code sent to email."))]
  /\ UNCHANGED <<formVars, engineVars, routeVars, verifyNow, mailer>>

\* The call of the mail provider settles.
MailSettles(r) ==
  /\ inflight[r].pc = "sending"
  /\ \E outcome \in MailOutcomes :
       inflight' = [inflight EXCEPT
                      ![r].pc = "done",
                      ![r].reply =
                        IF outcome = "ok"
                        THEN Some(Reply(200, TRUE, "Verification code sent to email."))
                        ELSE IF outcome = "non_ok"
                        THEN Some(Reply(500, FALSE, "Failed to send email. Please check server logs or use test@example.com."))
                        ELSE Some(Reply(500, FALSE, "Failed to send email. System error."))]
  /\ UNCHANGED <<formVars, engineVars, routeVars, verificationCodes, verifyNow, mailer, history>>

\* The body has arrived with an email and a code: lookup, checks and
\* removal run without interruption.
HandleVerify(r) ==
  /\ inflight[r].pc = "received"
  /\ \E email \in {e \in Emails : IsEmailAddress(e)}, code \in Codes :
       LET v == verifyCode(verificationCodes, email, code, verifyNow) IN
       /\ verificationCodes' = v.store
       /\ inflight' = [inflight EXCEPT ![r].pc = "done", ![r].email = Some(email),
                                       ![r].code = Some(code),
                                       ![r].issuedBefore = Some(history.issued),
                                       ![r].reply = Some(v.reply)]
       /\ history' = IF v.reply.success
                     THEN [history EXCEPT !.verified =
                             Append(@, Get(verificationCodes[emailKey(email)]).issue)]
                     ELSE history
  /\ UNCHANGED <<formVars, engineVars, routeVars, verifyNow, mailer>>

\* Ten minutes pass.
TickVerify ==
  /\ verifyNow < LastVerifyTime
  /\ verifyNow' = verifyNow + 1
  /\ UNCHANGED <<formVars, engineVars, routeVars, verificationCodes, inflight, mailer, history>>

NextVerify ==
  \/ \E r \in RequestIds :
       \/ Post(r) \/ HandleMissingEmail(r) \/ HandleCodeRequest(r)
       \/ MailSettles(r) \/ HandleVerify(r)
  \/ TickVerify

SpecVerify == InitVerify /\ [][NextVerify]_vars

(* --------------------------- email-gated form -------------------------- *)

\* What the user may have typed into the email and url inputs, what the
\* code input holds after replace(/\D/g, '').slice(0, 6), and which of these
\* codes have length 6.
Typed ==
  [email |-> {"", " ", "a@x.io", " a@x.io", "b@x.io"},
   code |-> {"", "12345", "123456"},
   sixDigits |-> {"123456"},
   url |-> {"", "https://example.com", " https://example.com "}]

\* String.prototype.trim on the typed strings.
trim(s) ==
  CASE s = " " -> ""
    [] s = " a@x.io" -> "a@x.io"
    [] s = " https://example.com " -> "https://example.com"
    [] OTHER -> s

\* How a fetch of /api/verify-email settles for the form, and the error text
\* shown when it did not succeed: "success" is a success body, "refused" a
\* non-ok status or success = false, "throws" a rejected promise.
FetchError ==
  [success |-> None, refused |-> Some("the error of the response"),
   throws |-> Some("Failed to fetch")]

InitForm ==
  /\ content = BlankPage
  /\ gmbProfile = None
  /\ now = StartDay
  /\ result = None
  /\ invokedAt = None
  /\ lossArgs = None
  /\ lossResult = None
  /\ RouteIdle
  /\ VerifyIdle
  /\ form = [step |-> "EMAIL", email |-> "", code |-> "", url |-> "",
             isVerifying |-> FALSE, error |-> None, isLoading |-> FALSE]
  /\ pendingFetch = {}
  /\ formLog = [submitted |-> None, verified |-> None]

\* Variant: the email input stays enabled while a request is in flight.
TypeEmailWhileVerifying ==
  /\ form.step = "EMAIL"
  /\ \E typed \in Typed.email : form' = [form EXCEPT !.email = typed]
  /\ UNCHANGED <<engineVars, routeVars, verifyVars, pendingFetch, formLog>>

\* The user edits the email input, which is rendered in step EMAIL and
\* disabled while isVerifying.
TypeEmail ==
  /\ form.step = "EMAIL" /\ ~form.isVerifying
  /\ \E typed \in Typed.email : form' = [form EXCEPT !.email = typed]
  /\ UNCHANGED <<engineVars, routeVars, verifyVars, pendingFetch, formLog>>

\* The user submits the email form (its button is disabled while isVerifying
\* or while the trimmed email is empty): handleGetCode up to its fetch.
handleGetCode ==
  /\ form.step = "EMAIL" /\ ~form.isVerifying /\ trim(form.email) # ""
  /\ form' = [form EXCEPT !.error = None, !.isVerifying = TRUE]
  /\ pendingFetch' = pendingFetch
       \cup {[kind |-> "get_code", email |-> trim(form.email), code |-> None]}
  /\ UNCHANGED <<engineVars, routeVars, verifyVars, formLog>>

\* handleGetCode after its fetch has settled.
GetCodeSettles ==
  /\ \E req \in pendingFetch, outcome \in DOMAIN FetchError :
       /\ req.kind = "get_code"
       /\ pendingFetch' = pendingFetch \ {req}
       /\ form' = IF outcome = "success"
                  THEN [form EXCEPT !.step = "CODE", !.isVerifying = FALSE]
                  ELSE [form EXCEPT !.error = FetchError[outcome],
                                    !.isVerifying = FALSE]
  /\ UNCHANGED <<engineVars, routeVars, verifyVars, formLog>>

\* The user edits the code input, rendered in step CODE and disabled while
\* isVerifying.
TypeCode ==
  /\ form.step = "CODE" /\ ~form.isVerifying
  /\ \E typed \in Typed.code : form' = [form EXCEPT !.code = typed]
  /\ UNCHANGED <<engineVars, routeVars, verifyVars, pendingFetch, formLog>>

\* The user submits the code form (its button is disabled while isVerifying
\* or unless six digits are entered): handleVerifyCode up to its fetch.
handleVerifyCode ==
  /\ form.step = "CODE" /\ ~form.isVerifying
  /\ trim(form.code) # "" /\ form.code \in Typed.sixDigits
  /\ form' = [form EXCEPT !.error = None, !.isVerifying = TRUE]
  /\ pendingFetch' = pendingFetch
       \cup {[kind |-> "verify", email |-> trim(form.email),
              code |-> Some(trim(form.code))]}
  /\ UNCHANGED <<engineVars, routeVars, verifyVars, formLog>>

\* handleVerifyCode after its fetch has settled.
VerifySettles ==
  /\ \E req \in pendingFetch, outcome \in DOMAIN FetchError :
       /\ req.kind = "verify"
       /\ pendingFetch' = pendingFetch \ {req}
       /\ form' = IF outcome = "success"
                  THEN [form EXCEPT !.step = "ANALYZE", !.isVerifying = FALSE]
                  ELSE [form EXCEPT !.error = FetchError[outcome],
                                    !.isVerifying = FALSE]
       /\ formLog' = IF outcome = "success"
                     THEN [formLog EXCEPT !.verified = Some(req.email)]
                     ELSE formLog
  /\ UNCHANGED <<engineVars, routeVars, verifyVars>>

\* The user presses 'Use a different email', rendered in step CODE and never
\* disabled.
UseDifferentEmail ==
  /\ form.step = "CODE"
  /\ form' = [form EXCEPT !.step = "EMAIL", !.code = "", !.error = None]
  /\ UNCHANGED <<engineVars, routeVars, verifyVars, pendingFetch, formLog>>

\* The user edits the url input, rendered in step ANALYZE and disabled while
\* isLoading.
TypeUrl ==
  /\ form.step = "ANALYZE" /\ ~form.isLoading
  /\ \E typed \in Typed.url : form' = [form EXCEPT !.url = typed]
  /\ UNCHANGED <<engineVars, routeVars, verifyVars, pendingFetch, formLog>>

\* The user submits the url form, rendered when the step is neither EMAIL nor
\* CODE (its button is disabled while isLoading or while the trimmed url is
\* empty): handleAnalyze calls onSubmit.
handleAnalyze ==
  /\ form.step \notin {"EMAIL", "CODE"}
  /\ ~form.isLoading /\ trim(form.url) # ""
  /\ trim(form.url) # "" /\ ~form.isLoading /\ form.step = "ANALYZE"
  /\ formLog' = [formLog EXCEPT
                   !.submitted = Some([url |-> trim(form.url),
                                       email |-> trim(form.email),
                                       step |-> form.step])]
  /\ UNCHANGED <<engineVars, routeVars, verifyVars, form, pendingFetch>>

\* The parent changes the isLoading prop.
SetLoading ==
  /\ form' = [form EXCEPT !.isLoading = ~form.isLoading]
  /\ UNCHANGED <<engineVars, routeVars, verifyVars, pendingFetch, formLog>>

NextForm ==
  \/ TypeEmail \/ handleGetCode \/ GetCodeSettles
  \/ TypeCode \/ handleVerifyCode \/ VerifySettles \/ UseDifferentEmail
  \/ TypeUrl \/ handleAnalyze \/ SetLoading

SpecForm == InitForm /\ [][NextForm]_vars

(* ------------------------------ properties ---------------------------- *)

Done == result # None
R == Get(result)

OfferIds(offers) == {offers[i].id : i \in 1..Len(offers)}
OfferWithId(offers, id) ==
  offers[CHOOSE i \in 1..Len(offers) : offers[i].id = id]

CategoryTotal == R.scores.content + R.scores.authority + R.scores.systems
                 + R.scores.hypergrowth

\* C1: every category score and the overall score is an integer in 0..100,
\* and the overall score is the mean of the four category scores rounded to
\* the nearest integer, halves up.
C1_ScoresInRangeOverallIsRoundedMean ==
  Done =>
    /\ \A s \in {R.scores.content, R.scores.authority, R.scores.systems,
                 R.scores.hypergrowth, R.scores.overall} : s \in 0..100
    /\ 4 * R.scores.overall <= CategoryTotal + 2
    /\ CategoryTotal + 2 < 4 * R.scores.overall + 4

\* An analysis whose category scores average to exactly a half.
C1_Witness ==
  Done /\ CategoryTotal % 4 = 2 /\ R.scores.overall > 0

OnPageSignals ==
  {i \in 1..Len(R.signals.authority) : R.signals.authority[i].id # "signal_gmb_profile"}

RECURSIVE SumOver(_, _)
SumOver(signals, idx) ==
  IF idx = {} THEN 0
  ELSE LET i == CHOOSE j \in idx : TRUE IN
       signals[i].score + SumOver(signals, idx \ {i})

\* C2: authority = round(0.5 * onPage + 0.5 * rep), where onPage is
\* round(100 * sum / 40) over exactly the four on-page authority signals and
\* rep is the supplied profile's score, or 0 without a profile.
C2_AuthorityIsExactBlend ==
  Done =>
    LET sum == SumOver(R.signals.authority, OnPageSignals)
        onPage == (2 * 100 * sum + 40) \div (2 * 40)
        rep == IF gmbProfile = None THEN 0 ELSE Get(gmbProfile).score IN
    /\ Cardinality(OnPageSignals) = 4
    /\ R.scores.authority = (onPage + rep + 1) \div 2

AllSignals ==
  R.signals.content \o R.signals.authority \o R.signals.systems
  \o R.signals.hypergrowth

\* C3: every signal returned in the four signal lists, the reputation
\* pass-through included, has an integer score between 0 and 10.
C3_SignalScoresInRange ==
  Done => /\ Len(AllSignals) = 11
          /\ \A i \in 1..Len(AllSignals) : AllSignals[i].score \in 0..10

\* An analysis with a signal at each end of the range, the pass-through at 10.
C3_Witness ==
  /\ Done
  /\ R.signals.authority[5].score = 10
  /\ R.signals.systems[1].score = 0

\* C4: an invocation without a reputation profile returns the same scores,
\* signals, priority issues and offers as one with the explicit profile
\* {found: false, score: 0}.
C4_AbsentProfileIsNotFound ==
  (Done /\ gmbProfile = None) =>
    R = calculateCASHScoreV2(content, Some(NotFoundProfile), Get(invokedAt))

\* An analysis without a profile that returned the local-visibility offer.
C4_Witness ==
  /\ Done /\ gmbProfile = None
  /\ "local_dominance" \in OfferIds(R.offers)
  /\ R.signals.authority[5].notes
       = "GMB Profile not found. Critical Authority Signal Missing."

\* The per-lead value the table assigns to each detected business type.
ClaimedPerLeadValue(type) ==
  IF type = None THEN 112
  ELSE CASE Get(type) = "Dentist" -> 200
         [] Get(type) = "Auto Repair" -> 150
         [] Get(type) = "Clinic" -> 180
         [] Get(type) = "Law Firm" -> 300
         [] Get(type) = "Real Estate" -> 250
         [] Get(type) = "Property Management" -> 2000
         [] Get(type) \in {"Plumber", "Electrician", "HVAC"} -> 120
         [] OTHER -> 112

\* C5: calculateMonetizedLoss returns absent exactly when systemsScore >= 50
\* and automationScore >= 5, and otherwise 90 times the per-lead value of the
\* detected business type (112 when unclassified).
C5_LossAbsentOrNinetyPerLead ==
  lossResult # None =>
    LET args == Get(lossArgs)
        returned == Get(lossResult) IN
    IF args.systemsScore >= 50 /\ args.automationScore >= 5
    THEN returned = None
    ELSE returned = Some(90 * ClaimedPerLeadValue(detectBusinessType(content)))

\* A call with scores 50 and 5 on a property-management page returned absent.
C5_Witness ==
  /\ lossArgs = Some([systemsScore |-> 50, automationScore |-> 5])
  /\ lossResult = Some(None)
  /\ content.business.priority

NoAutomationMarkers(c) ==
  /\ ~c.automation.bookingSystem /\ ~c.automation.aiChatbot
  /\ ~c.automation.crmIntegration /\ ~c.automation.emailAutomation
  /\ ~c.automation.paymentSystem

\* C6: on a page without booking, chatbot, CRM, email-list or payment
\* markers, for every reputation profile, the automation signal is 0, the
\* systems score is 0 and the returned offers contain ai_receptionist
\* carrying monetizedLoss = 90 * perLeadValue.
C6_FlagshipOfferedWithoutAutomation ==
  (Done /\ NoAutomationMarkers(content)) =>
    /\ R.signals.systems[1].score = 0
    /\ R.scores.systems = 0
    /\ "ai_receptionist" \in OfferIds(R.offers)
    /\ OfferWithId(R.offers, "ai_receptionist").monetizedLoss
         = Some(90 * ClaimedPerLeadValue(detectBusinessType(content)))

\* The offers array before truncation, for the inputs of the last invocation.
LastGenerated ==
  GeneratedOffers(R.scores, R.signals, content, R.detectedBusinessType,
                  gmbProfile, Get(invokedAt))

ProfileMissing == gmbProfile = None \/ ~Get(gmbProfile).found

\* C7: local_dominance is generated exactly when the profile is absent, not
\* found, or scores below 50; it carries the not-found wording exactly when
\* the profile is absent or not found, the weak-profile wording otherwise; and
\* without a profile the not-found variant is among the returned offers.
C7_LocalVisibilityOffer ==
  Done =>
    /\ "local_dominance" \in OfferIds(LastGenerated)
         <=> (ProfileMissing \/ Get(gmbProfile).score < 50)
    /\ "local_dominance" \in OfferIds(LastGenerated) =>
         OfferWithId(LastGenerated, "local_dominance").reason.text
           = IF ProfileMissing
             THEN "INVISIBLE: We cannot find your Google Business Profile. You are invisible to local customers. We will claim, verify, and rank your profile #1."
             ELSE "WEAK PRESENCE: Your Google Profile is unoptimized and losing traffic. We optimize photos, posts, and categories to dominate the Map Pack."
    /\ gmbProfile = None =>
         /\ "local_dominance" \in OfferIds(R.offers)
         /\ OfferWithId(R.offers, "local_dominance").reason.text
              = "INVISIBLE: We cannot find your Google Business Profile. You are invisible to local customers. We will claim, verify, and rank your profile #1."

\* Without a profile, the not-found offer is returned third, after both
\* trust offers, and the list is full.
C7_Witness ==
  /\ Done /\ gmbProfile = None
  /\ Len(R.offers) = 4
  /\ R.offers[3].id = "local_dominance"

RuleOrder ==
  <<"authenticity_overhaul", "review_management", "reputation_resurrection",
    "local_dominance", "ai_receptionist", "scalability_architecture">>

Rank(id) == CHOOSE i \in 1..Len(RuleOrder) : RuleOrder[i] = id

\* C8: the returned offers are exactly the first min(4, n) of the n generated
\* offers, which come in rule-evaluation order; so at most 4 are returned.
C8_OffersAreFirstFourInRuleOrder ==
  Done =>
    LET n == Len(LastGenerated) IN
    /\ Len(R.offers) <= 4
    /\ Len(R.offers) = IF n < 4 THEN n ELSE 4
    /\ \A i \in 1..Len(R.offers) : R.offers[i] = LastGenerated[i]
    /\ \A i \in 1..n : LastGenerated[i].id \in {RuleOrder[r] : r \in 1..Len(RuleOrder)}
    /\ \A i, j \in 1..n :
         i < j => Rank(LastGenerated[i].id) < Rank(LastGenerated[j].id)

\* All six rules fired and the last two offers were cut.
C8_Witness ==
  Done /\ Len(LastGenerated) = 6 /\ Len(R.offers) = 4

Categories == <<"content", "authority", "systems", "hypergrowth">>

IssuesOf(category) ==
  {i \in 1..Len(R.priorityIssues) : R.priorityIssues[i].id[1] = category}

\* C9: each category contributes at most one issue: when its score is below
\* 50, one issue for the first signal of its list scoring below 5, labelled
\* with that signal's notes, severity high below 30 and medium otherwise;
\* a category scoring 50 or more, or without a signal below 5, contributes
\* none; the list never has more than 4 issues.
C9_OneIssuePerWeakCategory ==
  Done =>
    /\ Len(R.priorityIssues) <= 4
    /\ \A i, j \in 1..Len(R.priorityIssues) :
         i < j => \E a, b \in 1..4 :
                    /\ a < b
                    /\ R.priorityIssues[i].id[1] = Categories[a]
                    /\ R.priorityIssues[j].id[1] = Categories[b]
    /\ \A k \in 1..4 :
         LET category == Categories[k]
             score == R.scores[category]
             signals == R.signals[category]
             low == {i \in 1..Len(signals) : signals[i].score < 5} IN
         /\ Cardinality(IssuesOf(category)) <= 1
         /\ IssuesOf(category) # {} <=> (score < 50 /\ low # {})
         /\ \A x \in IssuesOf(category) :
              LET first == CHOOSE i \in low : \A j \in low : i <= j IN
              /\ R.priorityIssues[x].id = <<category, signals[first].id>>
              /\ R.priorityIssues[x].label = signals[first].notes
              /\ R.priorityIssues[x].severity
                   = IF score < 30 THEN "high" ELSE "medium"

\* The content issue names the first low signal although a later signal of
\* the list scores lower, and the authority issue is the pass-through signal.
C9_Witness ==
  /\ Done
  /\ \E x \in IssuesOf("content") :
       /\ R.priorityIssues[x].id[2] = R.signals.content[1].id
       /\ R.signals.content[2].score < R.signals.content[1].score
  /\ \E x \in IssuesOf("authority") :
       R.priorityIssues[x].id[2] = "signal_gmb_profile"

\* C10: two invocations with the same page content and the same reputation
\* profile return identical results, whenever they happen.  (The inputs of a
\* behaviour never change, so any two results in it are for the same inputs.)
C10_Deterministic ==
  [][(result # None /\ result' # None) => result' = result]_vars

(* ------------------- properties of the analyze route ------------------ *)

Responded == response # None
Succeeded == Responded /\ Get(response).status = 200
Body == Get(Get(response).body)

PriorityRank(priority) ==
  CASE priority = "high" -> 3 [] priority = "medium" -> 2 [] priority = "low" -> 1

\* ai_receptionist, if present, is first, and the other offers come in
\* non-increasing priority.
OrderedForDisplay(offers) ==
  /\ \A i \in 1..Len(offers) : offers[i].id = "ai_receptionist" => i = 1
  /\ \A i, j \in 1..Len(offers) :
       (i < j /\ offers[i].id # "ai_receptionist"
        /\ offers[j].id # "ai_receptionist")
         => PriorityRank(offers[i].priority) >= PriorityRank(offers[j].priority)

\* C11: the offers list that the sorting analyze handler returns, and the
\* list that ResultViewer renders, have ai_receptionist first if present and
\* the remaining offers in non-increasing priority high > medium > low.
C11_DisplayOrder ==
  /\ (Succeeded /\ Get(request).handler = 1) => OrderedForDisplay(Body.offers)
  /\ displayed # None => OrderedForDisplay(Get(displayed))

\* The body the handler is to return for the inputs of this request; it
\* does not mention what lead delivery did.
ExpectedBody ==
  BuildResult(Get(request), content, Get(gmbProfile), R, Get(aiSummary),
              Get(invokedAt))

\* C12: whatever lead delivery does once it settles (no webhook url, a
\* non-OK status, a throwing fetch, or success), the request returns status
\* 200 with the result computed before delivery, so a failed delivery gives
\* the same response as a successful one.
C12_DeliveryFailureIsHarmless ==
  (Responded /\ calls.delivery \in {"no_url", "non_ok", "throws", "ok"})
    => response = Some(Response(200, None, Some(ExpectedBody)))

\* The webhook fetch threw and the result was returned all the same.
C12_Witness ==
  /\ Responded /\ calls.delivery = "throws"
  /\ Succeeded /\ Len(Body.offers) = 4

\* The loss amount of the ai_receptionist offer among the returned offers.
ReturnedLossAmount ==
  IF "ai_receptionist" \in OfferIds(R.offers)
  THEN OfferWithId(R.offers, "ai_receptionist").monetizedLoss
  ELSE None

\* C13: when the completion call throws or its reply cannot be parsed,
\* generateAISummary returns bullets and a hook that hold nothing but fixed
\* text and values of the score result (category scores, the overall score,
\* the receptionist loss amount), and the request succeeds with that summary.
C13_SummaryFallback ==
  (Responded /\ calls.completion \in {"throws", "unparsable"}) =>
    /\ aiSummary # None
    /\ LET summary == Get(aiSummary)
           bullets == summary.shortBullets IN
       /\ Len(bullets) >= 3
       /\ bullets # GeneratedBullets /\ summary.oneLineHook # GeneratedHook
       /\ \A i \in 1..Len(bullets) :
            bullets[i].value \in {None, Some(R.scores.authority),
                                  Some(R.scores.systems), Some(R.scores.content),
                                  Some(R.scores.overall)}
       /\ bullets[Len(bullets)].value = Some(R.scores.overall)
       /\ summary.oneLineHook.lossText.amount = ReturnedLossAmount
       /\ Succeeded /\ Body.aiSummary = summary

\* The reply was not JSON; the second handler answered with the fallback
\* summary, whose hook carries the loss amount.
C13_Witness ==
  /\ Responded /\ calls.completion = "unparsable"
  /\ Get(request).handler = 2
  /\ Succeeded
  /\ Body.aiSummary.oneLineHook.lossText.amount # None

C15_EveryRequestIsAnswered == <>Responded

(* ----------------- properties of the email verification --------------- *)

\* How often an issued code has been verified.
TimesVerified(issue) ==
  Cardinality({i \in 1..Len(history.verified) : history.verified[i] = issue})

\* C16: under every interleaving of requests, each issued code is verified
\* successfully at most once, and a code that has been verified is no longer
\* in the store, so verifying the same email and code again fails until a
\* new code is requested for that email.
C16_CodesAreOneTimeUse ==
  /\ \A issue \in 1..history.issued : TimesVerified(issue) <= 1
  /\ \A k \in EmailKeys :
       verificationCodes[k] # None
         => TimesVerified(Get(verificationCodes[k]).issue) = 0

\* One code was issued; of two verify requests carrying it, for addresses
\* that differ in case only, one succeeded and the other, handled after the
\* code was issued, found no code.
C16_Witness ==
  /\ history.issued = 1 /\ history.verified = <<1>>
  /\ \E r1, r2 \in RequestIds :
       /\ r1 # r2
       /\ inflight[r1].pc = "done" /\ inflight[r2].pc = "done"
       /\ inflight[r1].code # None /\ inflight[r2].code = inflight[r1].code
       /\ inflight[r1].email = Some("test@example.com")
       /\ inflight[r2].email = Some("Test@Example.com")
       /\ Get(inflight[r1].reply).success
       /\ inflight[r2].issuedBefore = Some(1)
       /\ Get(inflight[r2].reply)
            = Reply(400, FALSE, "No verification code found for this email. Please request a new code.")
       /\ verifyNow = 0

(* --------------------- properties of the offer rules ------------------- *)

AutomationScore == R.signals.systems[1].score
TrackingScore == R.signals.hypergrowth[1].score

\* The outer conditions of rule 4, as the specification words them.
AutomationRuleFires ==
  /\ R.scores.systems < 70 \/ R.scores.hypergrowth < 70
  /\ AutomationScore < 5 \/ TrackingScore < 5

\* C17: before truncation, rule 4 produces an offer exactly when (systems < 70
\* or hypergrowth < 70) and (automation signal < 5 or tracking signal < 5);
\* then ai_receptionist is generated exactly when the automation signal is
\* below 5, and scalability_architecture exactly when both signals are below 5
\* or the systems or the hypergrowth score is below 50.
C17_AutomationRule ==
  Done =>
    LET ids == OfferIds(LastGenerated) IN
    /\ ({"ai_receptionist", "scalability_architecture"} \cap ids # {})
         <=> AutomationRuleFires
    /\ "ai_receptionist" \in ids
         <=> (AutomationRuleFires /\ AutomationScore < 5)
    /\ "scalability_architecture" \in ids
         <=> (AutomationRuleFires
              /\ \/ AutomationScore < 5 /\ TrackingScore < 5
                 \/ R.scores.systems < 50
                 \/ R.scores.hypergrowth < 50)

\* Automation is low, tracking is not, and the systems score alone brings in
\* the scalability package next to the receptionist.
C17_Witness ==
  /\ Done
  /\ AutomationScore < 5 /\ TrackingScore >= 5
  /\ R.scores.systems < 50 /\ R.scores.hypergrowth >= 50
  /\ {"ai_receptionist", "scalability_architecture"} \subseteq OfferIds(LastGenerated)

\* rating, review count or review age of a supplied profile is weak
WeakReputation ==
  /\ gmbProfile # None
  /\ LET gmb == Get(gmbProfile)
         rating == IF gmb.rating = None THEN 0 ELSE Get(gmb.rating)
         reviewCount == IF gmb.reviewCount = None THEN 0 ELSE Get(gmb.reviewCount) IN
     \/ rating < 45
     \/ reviewCount < 40
     \/ gmb.lastReviewDate # None
        /\ Get(invokedAt) - Get(gmb.lastReviewDate) > 90

LowOnPageSignals == {i \in OnPageSignals : R.signals.authority[i].score < 5}

\* C19: the returned offers contain authenticity_overhaul exactly when the
\* authority score is below 70 and at least two of the four on-page authority
\* signals score below 5; when present it is the first generated offer and
\* the first returned offer, so truncation never removes it.
C19_AuthenticityOffer ==
  Done =>
    /\ Cardinality(OnPageSignals) = 4
    /\ "authenticity_overhaul" \in OfferIds(R.offers)
         <=> (R.scores.authority < 70 /\ Cardinality(LowOnPageSignals) >= 2)
    /\ "authenticity_overhaul" \in OfferIds(LastGenerated) =>
         /\ LastGenerated[1].id = "authenticity_overhaul"
         /\ R.offers[1].id = "authenticity_overhaul"

\* Exactly two on-page signals are low, more than four offers were generated
\* and the trust package survived the cut.
C19_Witness ==
  /\ Done
  /\ Cardinality(LowOnPageSignals) = 2
  /\ Len(LastGenerated) > 4
  /\ R.offers[1].id = "authenticity_overhaul"

\* The category table in the order the specification gives it.
ClaimedTableOrder ==
  <<"Dentist", "Auto Repair", "Clinic", "Law Firm", "Real Estate", "Plumber",
    "Electrician", "HVAC", "Restaurant", "Cafe", "Retail", "Food">>

\* C20: detectBusinessType returns Property Management whenever one of the
\* priority phrases occurs, whatever other keywords occur; otherwise the first
\* category of the table order with a keyword in the text; otherwise null.
C20_BusinessTypeDetection ==
  Done =>
    LET hit == {i \in 1..12 : ClaimedTableOrder[i] \in content.business.keywords} IN
    /\ content.business.priority
         => R.detectedBusinessType = Some("Property Management")
    /\ (~content.business.priority /\ hit # {})
         => \E i \in hit : /\ \A j \in hit : i <= j
                           /\ R.detectedBusinessType = Some(ClaimedTableOrder[i])
    /\ (~content.business.priority /\ hit = {})
         => R.detectedBusinessType = None

\* A page with a priority phrase and keywords of two table categories was
\* classified as Property Management.
C20_Witness ==
  /\ Done
  /\ content.business.priority
  /\ Cardinality(content.business.keywords) = 2
  /\ R.detectedBusinessType = Some("Property Management")

(* ------------------------- claims C21 .. C30 --------------------------- *)

Flagship == OfferWithId(R.offers, "ai_receptionist")

\* C21: within one analysis the business type is the same everywhere it is
\* used: the loss on the flagship offer, when present, is 90 times the
\* per-lead value of the detectedBusinessType the result carries, and
\* classifying the same page again yields that same type.
C21_OneBusinessTypePerAnalysis ==
  Done =>
    /\ ("ai_receptionist" \in OfferIds(R.offers) /\ Flagship.monetizedLoss # None)
         => Flagship.monetizedLoss
              = Some(MISSED_CALLS_PER_MONTH * PerLeadValue(R.detectedBusinessType))
    /\ detectBusinessType(content) = R.detectedBusinessType

\* A page with a priority phrase and a table keyword was analysed, and its
\* flagship offer carries the Property Management loss.
C21_Witness ==
  /\ Done
  /\ content.business.priority /\ content.business.keywords # {}
  /\ "ai_receptionist" \in OfferIds(R.offers)
  /\ Flagship.monetizedLoss = Some(90 * 2000)
  /\ R.detectedBusinessType = Some("Property Management")

CredentialSignalOf(res) == res.signals.authority[2]

\* C22: the credential-verification signal is determined by the number m of
\* credential-pattern matches and the presence s of an about/team section
\* keyword: 9 if m >= 5; 7 if m is 3 or 4; 5 if m is 1 or 2 and s; 3 if m is
\* 1 or 2 and not s; 1 if m = 0.
C22_CredentialSignal ==
  Done =>
    LET m == content.credential.credentialMatches
        s == content.credential.hasCredentialSection
        score == CredentialSignalOf(R).score IN
    /\ CredentialSignalOf(R).id = "signal_2_credential_verification"
    /\ (m >= 5) => score = 9
    /\ (m \in 3..4) => score = 7
    /\ (m \in 1..2 /\ s) => score = 5
    /\ (m \in 1..2 /\ ~s) => score = 3
    /\ (m = 0) => score = 1

\* A page with exactly five credential matches and no about/team section was
\* analysed and its credential signal is 9.
C22_Witness ==
  /\ Done
  /\ content.credential.credentialMatches = 5
  /\ ~content.credential.hasCredentialSection
  /\ CredentialSignalOf(R).score = 9

\* The ten calculator signals of the last analysis, the reputation
\* pass-through excluded.
CalculatorSignals ==
  {R.signals.authority[i] : i \in 1..4} \cup {R.signals.content[i] : i \in 1..4}
  \cup {R.signals.systems[1], R.signals.hypergrowth[1]}

PositiveNote(id) ==
  CASE id = "signal_1_review_recency_volume" -> "Strong review presence with recent activity"
    [] id = "signal_2_credential_verification" -> "Strong credential display and verification"
    [] id = "signal_3_social_proof_density" -> "High social proof density across multiple channels"
    [] id = "signal_9_trust_badge_presence" -> "Strong trust badges and security indicators"
    [] id = "signal_4_conversion_friction" -> "Low friction conversion path detected"
    [] id = "signal_5_intent_signal_strength" -> "Strong intent signals throughout content"
    [] id = "signal_7_value_proposition_clarity" -> "Clear, specific value proposition"
    [] id = "signal_8_mobile_experience" -> "Optimized mobile experience detected"
    [] id = "signal_6_automation_infrastructure" -> "Strong automation infrastructure in place"
    [] id = "signal_10_growth_attribution" -> "Comprehensive growth attribution tracking"

NegativeNote(id) ==
  CASE id = "signal_1_review_recency_volume" -> "Your reviews are old or missing. New customers see this and don't trust you."
    [] id = "signal_2_credential_verification" -> "Credentials not prominently displayed or verified"
    [] id = "signal_3_social_proof_density" -> "Limited social proof elements detected"
    [] id = "signal_9_trust_badge_presence" -> "Missing trust badges and security signals"
    [] id = "signal_4_conversion_friction" -> "High friction points blocking conversions"
    [] id = "signal_5_intent_signal_strength" -> "Weak intent signals - unclear value proposition"
    [] id = "signal_7_value_proposition_clarity" -> "Vague or generic value proposition"
    [] id = "signal_8_mobile_experience" -> "Mobile experience needs improvement"
    [] id = "signal_6_automation_infrastructure" -> "No instant client connection is possible (only a slow contact form). This is a huge leak in your acquisition system."
    [] id = "signal_10_growth_attribution" -> "Missing or incomplete growth tracking"

\* C23: each of the ten calculator signals carries its fixed positive note
\* exactly when its emitted score is at least 7 and its fixed negative note
\* otherwise; no other note is attached.
C23_NotesFollowEmittedScore ==
  Done =>
    /\ Cardinality({s.id : s \in CalculatorSignals}) = 10
    /\ \A s \in CalculatorSignals :
         /\ s.notes \in {PositiveNote(s.id), NegativeNote(s.id)}
         /\ s.notes = PositiveNote(s.id) <=> s.score >= 7

\* Three of four intent families matched: the unrounded sum 7.5 is emitted as
\* 8 with the positive note, while another signal of the same analysis is
\* below the threshold and carries its negative note.
C23_Witness ==
  /\ Done
  /\ IntentScoreHalves(content) = 15
  /\ R.signals.content[2].score = 8
  /\ R.signals.content[2].notes = "Strong intent signals throughout content"
  /\ \E s \in CalculatorSignals : s.score < 7 /\ s.notes = NegativeNote(s.id)

\* C24: whenever the ai_receptionist offer is among the returned offers, its
\* monetizedLoss is present and equals 90 times the per-lead value of the
\* detected business type, a multiple of 90 of at least 90 * 112; the systems
\* score is ten times the automation signal.
C24_FlagshipAlwaysCarriesLoss ==
  Done =>
    /\ R.scores.systems = 10 * R.signals.systems[1].score
    /\ "ai_receptionist" \in OfferIds(R.offers) =>
         /\ Flagship.monetizedLoss # None
         /\ Flagship.monetizedLoss
              = Some(90 * ClaimedPerLeadValue(R.detectedBusinessType))
         /\ Get(Flagship.monetizedLoss) % 90 = 0
         /\ Get(Flagship.monetizedLoss) >= 90 * 112

\* The flagship offer was returned for an unclassified page whose automation
\* signal is 4 (systems score 40), carrying the default loss.
C24_Witness ==
  /\ Done
  /\ R.signals.systems[1].score = 4 /\ R.scores.systems = 40
  /\ R.detectedBusinessType = None
  /\ "ai_receptionist" \in OfferIds(R.offers)
  /\ Flagship.monetizedLoss = Some(10080)

\* C25: for the content, systems and hypergrowth categories an issue is
\* emitted for the category exactly when its score is below 50: a score below
\* 50 implies that one of the category's signals scores below 5.
C25_WeakCategoryAlwaysHasIssue ==
  Done =>
    \A category \in {"content", "systems", "hypergrowth"} :
      /\ R.scores[category] < 50
           => \E i \in 1..Len(R.signals[category]) : R.signals[category][i].score < 5
      /\ IssuesOf(category) # {} <=> R.scores[category] < 50

\* The content score is just below 50 with a single content signal below 5,
\* and the content issue was emitted.
C25_Witness ==
  /\ Done
  /\ R.scores.content = 48
  /\ Cardinality({i \in 1..4 : R.signals.content[i].score < 5}) = 1
  /\ IssuesOf("content") # {}

(* ------------------- properties of the verify-email route -------------- *)

\* Request r is a code request that has stored its code (its mail may still
\* be on the way).
IsCodeRequestFor(r, k) ==
  /\ inflight[r].pc \in {"sending", "done"}
  /\ inflight[r].email # None /\ inflight[r].code = None
  /\ IsEmailAddress(Get(inflight[r].email))
  /\ emailKey(Get(inflight[r].email)) = k

\* Request r is a verify request that has been answered.
IsVerifyRequest(r) == inflight[r].pc = "done" /\ inflight[r].code # None

ExpiredText == "Verification code has expired. Please request a new code."
InvalidText == "Invalid verification code."
NoCodeText == "No verification code found for this email. Please request a new code."

\* C26: a verify request succeeds exactly when the store holds an entry
\* under the lower-cased email, the time is not later than its expiresAt and
\* the submitted code equals the stored code; a success is preceded by a code
\* request for that email, and an attempt after expiry fails and removes the
\* entry.
C26_VerifySucceedsOnlyOnMatch ==
  [][\A r \in RequestIds :
       (inflight[r].pc = "received" /\ inflight'[r].pc = "done"
        /\ inflight'[r].code # None) =>
         LET k == emailKey(Get(inflight'[r].email))
             entry == verificationCodes[k]
             ok == Get(inflight'[r].reply).success IN
         /\ ok <=> (/\ entry # None
                    /\ verifyNow <= Get(entry).expiresAt
                    /\ Get(entry).code = Get(inflight'[r].code))
         /\ ok => \E q \in RequestIds \ {r} : IsCodeRequestFor(q, k)
         /\ (entry # None /\ verifyNow > Get(entry).expiresAt)
              => (~ok /\ verificationCodes'[k] = None)]_vars

\* The one code issued, 123456 for test@example.com, was submitted after its
\* expiry under a differently cased address: the attempt failed as expired and
\* the entry is gone.
C26_Witness ==
  /\ history.issued = 1 /\ history.verified = <<>>
  /\ \E q, r \in RequestIds :
       /\ IsCodeRequestFor(q, "test@example.com")
       /\ inflight[q].email = Some("test@example.com")
       /\ IsVerifyRequest(r)
       /\ inflight[r].email = Some("Test@Example.com")
       /\ inflight[r].code = Some("123456")
       /\ Get(inflight[r].reply) = Reply(400, FALSE, ExpiredText)
  /\ verificationCodes["test@example.com"] = None

\* C27: a verify request that fails because the code is wrong or because no
\* entry exists leaves the verification store unchanged, so the correct code
\* submitted before expiry still succeeds afterwards.
C27_FailedVerifyKeepsStore ==
  [][\A r \in RequestIds :
       (/\ inflight[r].pc = "received" /\ inflight'[r].pc = "done"
        /\ inflight'[r].code # None
        /\ Get(inflight'[r].reply).text \in {InvalidText, NoCodeText})
       => /\ verificationCodes' = verificationCodes
          /\ ~Get(inflight'[r].reply).success]_vars

\* One code was issued; a verify request with a wrong code was rejected and a
\* later verify request for the same address succeeded.
C27_Witness ==
  /\ history.issued = 1 /\ history.verified = <<1>>
  /\ \E r1, r2 \in RequestIds :
       /\ IsVerifyRequest(r1) /\ IsVerifyRequest(r2)
       /\ emailKey(Get(inflight[r1].email)) = emailKey(Get(inflight[r2].email))
       /\ Get(inflight[r1].reply) = Reply(400, FALSE, InvalidText)
       /\ inflight[r1].code # inflight[r2].code
       /\ Get(inflight[r2].reply).success

\* C28: the store holds one code per lower-cased email, the one of the most
\* recent code request: a code request replaces the entry under its key with
\* its own code, expiring ten minutes after the request, and leaves the other
\* keys alone; a verify request succeeds only with the code now stored, so
\* the earlier code is rejected.
C28_LatestCodeWins ==
  [][\A r \in RequestIds :
       /\ (/\ inflight[r].pc = "received" /\ inflight'[r].pc \in {"sending", "done"}
           /\ inflight'[r].email # None /\ inflight'[r].code = None
           /\ IsEmailAddress(Get(inflight'[r].email)))
          => LET email == Get(inflight'[r].email)
                 k == emailKey(email) IN
             /\ history'.issued = history.issued + 1
             /\ verificationCodes'[k] # None
             /\ Get(verificationCodes'[k]).issue = history'.issued
             /\ Get(verificationCodes'[k]).expiresAt = verifyNow + CODE_EXPIRATION
             /\ Get(verificationCodes'[k]).code \in Codes
             /\ email = "test@example.com" => Get(verificationCodes'[k]).code = "123456"
             /\ \A other \in EmailKeys \ {k} :
                  verificationCodes'[other] = verificationCodes[other]
       /\ (/\ inflight[r].pc = "received" /\ inflight'[r].pc = "done"
           /\ inflight'[r].code # None /\ Get(inflight'[r].reply).success)
          => LET k == emailKey(Get(inflight'[r].email)) IN
             /\ verificationCodes[k] # None
             /\ inflight'[r].code = Some(Get(verificationCodes[k]).code)
             /\ Append(history.verified, Get(verificationCodes[k]).issue)
                  = history'.verified]_vars

\* Two code requests for addresses that differ in case only: the one for
\* test@example.com issued 123456, the later one drew 654321, which the store
\* now holds as issue 2; a verify request with the earlier code, handled after
\* both, was rejected as invalid.
C28_Witness ==
  /\ history.issued = 2
  /\ verificationCodes["test@example.com"] # None
  /\ Get(verificationCodes["test@example.com"]).code = "654321"
  /\ Get(verificationCodes["test@example.com"]).issue = 2
  /\ \E q1, q2, r \in RequestIds :
       /\ IsCodeRequestFor(q1, "test@example.com")
       /\ inflight[q1].email = Some("test@example.com")
       /\ IsCodeRequestFor(q2, "test@example.com")
       /\ inflight[q2].email = Some("Test@Example.com")
       /\ IsVerifyRequest(r)
       /\ inflight[r].code = Some("123456")
       /\ inflight[r].issuedBefore = Some(2)
       /\ Get(inflight[r].reply) = Reply(400, FALSE, InvalidText)

\* The code requests for key k that have run up to or past the mail call.
CodeRequestsFor(k) ==
  {r \in RequestIds : /\ inflight[r].pc \in {"sending", "done"}
                      /\ inflight[r].email # None /\ inflight[r].code = None
                      /\ emailKey(Get(inflight[r].email)) = k}

\* C29: a code request answered with a failure (invalid email format, or the
\* mail delivery failing) leaves the store unchanged: when every code request
\* made for an email has been answered with success = false, the store holds
\* no code for it.
C29_FailedCodeRequestStoresNothing ==
  \A k \in EmailKeys :
    (\A r \in CodeRequestsFor(k) :
       inflight[r].pc = "done" /\ ~Get(inflight[r].reply).success)
    => verificationCodes[k] = None

(* ---------------------- properties of the input form ------------------- *)

\* C30: onSubmit is only invoked while step = ANALYZE and with the email that
\* verification succeeded for; step ANALYZE is entered only by a successful
\* verify-email response; once ANALYZE is reached the step never changes.
\* This holds under every interleaving of user actions and responses.
C30_GateHolds ==
  /\ [](formLog.submitted # None =>
          /\ Get(formLog.submitted).step = "ANALYZE"
          /\ formLog.verified = Some(Get(formLog.submitted).email))
  /\ []((form.step = "ANALYZE") =>
          formLog.verified = Some(trim(form.email)))
  /\ [][/\ form.step = "ANALYZE" => form'.step = "ANALYZE"
        /\ (form.step # "ANALYZE" /\ form'.step = "ANALYZE") =>
             \E req \in pendingFetch :
               /\ req.kind = "verify" /\ req \notin pendingFetch'
               /\ formLog'.verified = Some(req.email)]_vars

\* 'Use a different email' was pressed while the verify request for a@x.io
\* was in flight; its success still entered ANALYZE, and onSubmit received
\* the trimmed url and the verified email.
C30_Witness ==
  /\ form.step = "ANALYZE" /\ form.code = "" /\ form.email = " a@x.io"
  /\ formLog.verified = Some("a@x.io")
  /\ formLog.submitted = Some([url |-> "https://example.com", email |-> "a@x.io",
                               step |-> "ANALYZE"])

====
